---- MODULE Spec2Model ----
(***************************************************************************)
(* Model of the citation / reference rewriting core of paper_formatter.    *)
(*                                                                         *)
(* Text is a sequence of one-character strings.  A run is a record         *)
(*   [kids : sequence of [ch, el], font : [face, superscript]]             *)
(* where kids are the content children of the run's <w:r> element in       *)
(* document order: el = FALSE is a character held in a <w:t> text node,    *)
(* el = TRUE is a character that python-docx stores as an element of its   *)
(* own (<w:tab/> for a tab).  run.text reads all content children;         *)
(* assigning run.text rebuilds them from the string.                       *)
(***************************************************************************)
EXTENDS Integers, Sequences, FiniteSets, TLC

VARIABLES doc, doc0, inp, out, pc

vars == <<doc, doc0, inp, out, pc>>

None == "None"

TAB == "\t"

(***************************************************************************)
(* Bounds of the splice model.                                             *)
(***************************************************************************)
MaxRuns == 3
MaxLen == 3
MaxOld == 3

----------------------------------------------------------------------------
(* Generic sequence helpers (offsets are 0-based as in the Python code).   *)

SeqsUpTo(S, n) == UNION {[1..k -> S] : k \in 0..n}

\* s[a:b] for 0 <= a, b
Slice(s, a, b) == IF b <= a THEN <<>> ELSE SubSeq(s, a + 1, IF b > Len(s) THEN Len(s) ELSE b)

\* sub occurs in s at 0-based offset p
OccursAt(s, sub, p) == /\ p >= 0
                       /\ p + Len(sub) <= Len(s)
                       /\ \A k \in 1..Len(sub) : s[p + k] = sub[k]

\* str.find: offset of the first occurrence, -1 when absent
Find(s, sub) ==
  LET hits == {p \in 0..Len(s) : OccursAt(s, sub, p)}
  IN IF hits = {} THEN -1 ELSE CHOOSE p \in hits : \A q \in hits : p <= q

\* str.rfind
RFind(s, sub) ==
  LET hits == {p \in 0..Len(s) : OccursAt(s, sub, p)}
  IN IF hits = {} THEN -1 ELSE CHOOSE p \in hits : \A q \in hits : q <= p

RECURSIVE Concat(_)
Concat(ss) == IF ss = <<>> THEN <<>> ELSE Head(ss) \o Concat(Tail(ss))

----------------------------------------------------------------------------
(* Runs.                                                                   *)

\* characters that run.text = ... stores as elements of their own
ElementChars == {TAB}

\* run.text (getter): every content child contributes its character(s)
RunText(r) == [i \in 1..Len(r.kids) |-> r.kids[i].ch]

\* the children that run.text = s builds
TextKids(s) == [i \in 1..Len(s) |-> [ch |-> s[i], el |-> s[i] \in ElementChars]]

\* run.text = s (setter): content cleared and rebuilt, rPr kept
SetRunText(r, s) == [r EXCEPT !.kids = TextKids(s)]

\* an attribute that is not set (Python None) is <<>>, the value v is <<v>>
Unset == <<>>

MkRun(s, face, sup) ==
  [kids |-> TextKids(s), font |-> [face |-> face, superscript |-> sup, size |-> Unset]]

\* a paragraph: its style name, its runs, and its paragraph_format indents
MkPara(style, runs) ==
  [style |-> style, runs |-> runs, left_indent |-> Unset, first_line_indent |-> Unset]

\* merge_paragraph_runs: "".join(run.text for run in paragraph.runs)
merge_paragraph_runs(runs) == Concat([i \in 1..Len(runs) |-> RunText(runs[i])])

\* _insert_run_after: deep copy of the element of runs[run_idx] (1-based here),
\* its <w:t> children removed, one new <w:t> holding text appended, inserted
\* right after runs[run_idx].  The ref_run argument of the code is not used.
InsertRunAfter(runs, run_idx, text) ==
  LET src == runs[run_idx]
      kept == SelectSeq(src.kids, LAMBDA k : k.el)
      new_r == [kids |-> kept \o [i \in 1..Len(text) |-> [ch |-> text[i], el |-> FALSE]],
                font |-> src.font]
  IN SubSeq(runs, 1, run_idx) \o <<new_r>> \o SubSeq(runs, run_idx + 1, Len(runs))

SetSuperscript(runs, i, b) == [runs EXCEPT ![i].font.superscript = b]

\* run_boundaries[i] = (start_char, end_char), 0-based offsets, i 1-based
RunStart(runs, i) == Len(merge_paragraph_runs(SubSeq(runs, 1, i - 1)))
RunEnd(runs, i) == RunStart(runs, i) + Len(RunText(runs[i]))

\* runs overlapping [start, end)
Overlapping(runs, start, end) ==
  {i \in 1..Len(runs) : RunStart(runs, i) < end /\ RunEnd(runs, i) > start}

MinOf(S) == CHOOSE x \in S : \A y \in S : x <= y
MaxOf(S) == CHOOSE x \in S : \A y \in S : y <= x

\* mutant: the clearing loop also clears the run after the last overlapped one
SpliceMultiWide(runs, f, l, before_text, new_text, after_text, superscript) ==
  LET r1 == [runs EXCEPT ![f] = SetRunText(@, before_text)]
      r2 == InsertRunAfter(r1, f, new_text)
      r3 == IF superscript THEN SetSuperscript(r2, f + 1, TRUE) ELSE r2
      r4 == [i \in 1..Len(r3) |->
               IF i >= f + 2 /\ i <= l + 2 THEN SetRunText(r3[i], <<>>) ELSE r3[i]]
  IN [r4 EXCEPT ![l + 1] = SetRunText(@, after_text)]

\* replace_in_runs, multi-run branch (f < l, 1-based indices of the original runs)
SpliceMulti(runs, f, l, before_text, new_text, after_text, superscript) ==
  LET r1 == [runs EXCEPT ![f] = SetRunText(@, before_text)]
      r2 == InsertRunAfter(r1, f, new_text)
      r3 == IF superscript THEN SetSuperscript(r2, f + 1, TRUE) ELSE r2
      r4 == [i \in 1..Len(r3) |->
               IF i >= f + 2 /\ i <= l + 1 THEN SetRunText(r3[i], <<>>) ELSE r3[i]]
  IN [r4 EXCEPT ![l + 1] = SetRunText(@, after_text)]

\* replace_in_runs, single-run branch
SpliceSingle(runs, f, before_text, new_text, after_text, superscript) ==
  LET r1 == [runs EXCEPT ![f] = SetRunText(@, before_text)]
      r2 == InsertRunAfter(r1, f, new_text)
      r3 == IF superscript THEN SetSuperscript(r2, f + 1, TRUE) ELSE r2
  IN IF after_text # <<>> THEN InsertRunAfter(r3, f + 1, after_text) ELSE r3

\* mutant: the test of find's result is lost
AbsentNever(start) == FALSE

\* "if start == -1: return False"
Absent(start) == start = -1

\* replace_in_runs once the overlapped runs f..l are known: the texts kept before
\* and after the match, and the splice
ReplaceSpan(runs, f, l, full_text, start, end, new_text, superscript) ==
  LET before_text == Slice(full_text, RunStart(runs, f), start)
      after_text == Slice(full_text, end, RunEnd(runs, l))
  IN [ok |-> TRUE,
      runs |-> IF f = l
               THEN SpliceSingle(runs, f, before_text, new_text, after_text, superscript)
               ELSE SpliceMulti(runs, f, l, before_text, new_text, after_text, superscript)]

\* replace_in_runs from "start = full_text.find(old_text)" on
ReplaceFound(runs, full_text, start, end, new_text, superscript) ==
  LET hit == Overlapping(runs, start, end)
  IN IF Absent(start) THEN [ok |-> FALSE, runs |-> runs]
     ELSE IF hit = {} THEN [ok |-> FALSE, runs |-> runs]
     ELSE ReplaceSpan(runs, MinOf(hit), MaxOf(hit), full_text, start, end, new_text, superscript)

\* replace_in_runs(paragraph, old_text, new_text, superscript) -> (bool, runs)
replace_in_runs(runs, old_text, new_text, superscript) ==
  IF runs = <<>> THEN [ok |-> FALSE, runs |-> runs]
  ELSE ReplaceFound(runs, merge_paragraph_runs(runs),
                    Find(merge_paragraph_runs(runs), old_text),
                    Find(merge_paragraph_runs(runs), old_text) + Len(old_text),
                    new_text, superscript)

----------------------------------------------------------------------------
(* Specification of one call of replace_in_runs on a bounded paragraph.    *)

SpliceAlphabet == {"a", "b", TAB}

\* cut points of a text into n runs (empty runs allowed)
Cuts(L, n) == {c \in [0..n -> 0..L] :
                 /\ c[0] = 0
                 /\ c[n] = L
                 /\ \A i \in 1..n : c[i - 1] <= c[i]}

SpliceParagraphs ==
  {<<>>} \cup
  UNION { UNION { { [i \in 1..n |-> MkRun(Slice(t, c[i - 1], c[i]), i, s)] :
                      c \in Cuts(Len(t), n), s \in BOOLEAN }
                  : n \in 1..MaxRuns }
          : t \in SeqsUpTo(SpliceAlphabet, MaxLen) }

\* the literals searched for: the paragraphs are closed under exchanging "a"
\* and "b", so a non-empty literal starts with "a"
SpliceLiterals == {o \in SeqsUpTo({"a", "b"}, MaxOld) : o = <<>> \/ o[1] = "a"}

SpliceInit ==
  /\ pc = "splice_call"
  /\ \E rs \in SpliceParagraphs : doc = <<MkPara("Normal", rs)>>
  /\ doc0 = doc
  /\ inp \in [old : SpliceLiterals,
              new : {<<>>, <<"x">>},
              superscript : BOOLEAN]
  /\ out = [ret |-> None]

ReplaceInRuns ==
  /\ pc = "splice_call"
  /\ \E r \in {replace_in_runs(doc[1].runs, inp.old, inp.new, inp.superscript)} :
        /\ doc' = [doc EXCEPT ![1].runs = r.runs]
        /\ out' = [ret |-> r.ok]
  /\ pc' = "splice_done"
  /\ UNCHANGED <<doc0, inp>>

SpliceNext == ReplaceInRuns

SpliceSpec == SpliceInit /\ [][SpliceNext]_vars

\* the paragraph before the call, and the match the call is about
Runs0 == doc0[1].runs
Runs1 == doc[1].runs
Text0 == merge_paragraph_runs(Runs0)
Text1 == merge_paragraph_runs(Runs1)
MatchStart == Find(Text0, inp.old)
MatchEnd == MatchStart + Len(inp.old)
SpliceDone == pc = "splice_done"
Found == Runs0 # <<>> /\ inp.old # <<>> /\ MatchStart # -1
FirstHit == MinOf(Overlapping(Runs0, MatchStart, MatchEnd))
LastHit == MaxOf(Overlapping(Runs0, MatchStart, MatchEnd))
Grown == Len(Runs1) - Len(Runs0)

\* C1: whenever the non-empty literal old occurs in the paragraph's flattened
\* text, replace_in_runs returns true and the flattened text afterwards is the
\* original text with exactly the first occurrence of old replaced by new.
C1_FirstOccurrenceReplaced ==
  (SpliceDone /\ Found) =>
     /\ out.ret = TRUE
     /\ Text1 = Slice(Text0, 0, MatchStart) \o inp.new \o Slice(Text0, MatchEnd, Len(Text0))

\* C1 on plain text: the same statement for a match whose first overlapped run
\* holds no element character before the match.
C1_PlainTextReplaced ==
  (SpliceDone /\ Found /\
     \A k \in 1..Len(Runs0[FirstHit].kids) : ~Runs0[FirstHit].kids[k].el) =>
     /\ out.ret = TRUE
     /\ Text1 = Slice(Text0, 0, MatchStart) \o inp.new \o Slice(Text0, MatchEnd, Len(Text0))

\* C2: when old does not occur in the flattened text, or the paragraph has no
\* runs, replace_in_runs returns false and leaves every run (count, text,
\* formatting) as it was.
C2_AbsentNoMutation ==
  (SpliceDone /\ (Runs0 = <<>> \/ MatchStart = -1)) =>
     /\ out.ret = FALSE
     /\ doc = doc0

C2_Witness ==
  /\ SpliceDone
  /\ Len(Runs0) >= 2
  /\ Len(inp.old) >= 2
  /\ MatchStart = -1
  /\ out.ret = FALSE

\* C3: a successful replace_in_runs leaves every run that does not overlap the
\* matched span unchanged (text and formatting) and in the same relative order;
\* the run count grows by 1 or 2 for a single-run match and by exactly 1 for a
\* multi-run match, and no run is removed.
C3_SpliceLocality ==
  (SpliceDone /\ out.ret = TRUE) =>
     /\ \A i \in 1..(FirstHit - 1) : Runs1[i] = Runs0[i]
     /\ \A i \in (LastHit + 1)..Len(Runs0) : Runs1[i + Grown] = Runs0[i]
     /\ Runs1[FirstHit].font = Runs0[FirstHit].font
     /\ \A i \in (FirstHit + 1)..LastHit : Runs1[i + 1].font = Runs0[i].font
     /\ IF FirstHit = LastHit THEN Grown \in {1, 2} ELSE Grown = 1

C3_Witness ==
  /\ SpliceDone
  /\ out.ret = TRUE
  /\ FirstHit < LastHit
  /\ LastHit < Len(Runs0)
  /\ RunText(Runs0[LastHit + 1]) # <<>>
  /\ Runs1[LastHit + 2] = Runs0[LastHit + 1]

----------------------------------------------------------------------------
(* Character classes and the regular expressions of citations.py, matched   *)
(* at a 0-based offset p of a text t.  Every pattern below is deterministic *)
(* (each greedy choice is decided by the next character), so a match is     *)
(* computed by one left-to-right pass; -1 / None stand for "no match".      *)

Uppers == <<"A","B","C","D","E","F","G","H","I","J","K","L","M",
           "N","O","P","Q","R","S","T","U","V","W","X","Y","Z">>
Lowers == <<"a","b","c","d","e","f","g","h","i","j","k","l","m",
           "n","o","p","q","r","s","t","u","v","w","x","y","z">>
UpperChars == {Uppers[i] : i \in 1..26}
LowerChars == {Lowers[i] : i \in 1..26}
Digits == <<"0","1","2","3","4","5","6","7","8","9">>
DigitChars == {Digits[i] : i \in 1..10}
SpaceChars == {" ", TAB}

\* t[p], or "" outside the text
At(t, p) == IF p >= 0 /\ p < Len(t) THEN t[p + 1] ELSE ""

\* the offset after the longest run of characters of S starting at p
RECURSIVE SkipWhile(_, _, _)
SkipWhile(t, p, S) == IF At(t, p) \in S THEN SkipWhile(t, p + 1, S) ELSE p

\* str.lstrip(S), str.rstrip(S), str.strip()
LStrip(t, S) == Slice(t, SkipWhile(t, 0, S), Len(t))
RECURSIVE RStrip(_, _)
RStrip(t, S) == IF t # <<>> /\ t[Len(t)] \in S THEN RStrip(SubSeq(t, 1, Len(t) - 1), S) ELSE t
Strip(t) == RStrip(LStrip(t, SpaceChars), SpaceChars)

\* int(digits)
RECURSIVE StrToInt(_)
StrToInt(ds) ==
  IF ds = <<>> THEN 0
  ELSE 10 * StrToInt(SubSeq(ds, 1, Len(ds) - 1))
       + (CHOOSE d \in 0..9 : Digits[d + 1] = ds[Len(ds)])

\* str(n) for n >= 0
RECURSIVE IntToStr(_)
IntToStr(n) == IF n < 10 THEN <<Digits[n + 1]>> ELSE IntToStr(n \div 10) \o <<Digits[(n % 10) + 1]>>

\* (?:\s*[,;\-]\s*\d+)* continued from offset q; the offset after the last item
RECURSIVE NumTail(_, _)
NumTail(t, q) ==
  LET a == SkipWhile(t, q, SpaceChars)
      b == SkipWhile(t, a + 1, SpaceChars)
      c == SkipWhile(t, b, DigitChars)
  IN IF At(t, a) \in {",", ";", "-"} /\ c > b THEN NumTail(t, c) ELSE q

\* \d+(?:\s*[,;\-]\s*\d+)* at p: the end offset, or -1
NumListEnd(t, p) ==
  LET d == SkipWhile(t, p, DigitChars)
  IN IF d > p THEN NumTail(t, d) ELSE -1

\* a closing character ch at offset e ends a match begun before it; e = -1
\* when what came before did not match
ClosedBy(t, e, ch) == IF e # -1 /\ At(t, e) = ch THEN e + 1 ELSE -1

\* NUMERIC_BRACKET_RE at p: the end offset of the match, or -1
NumericBracketEnd(t, p) ==
  IF At(t, p) = "[" THEN ClosedBy(t, NumListEnd(t, p + 1), "]") ELSE -1

\* SUPERSCRIPT_NUM_RE.search(s): the whole of s is a numeral list
SuperscriptNum(s) == NumListEnd(s, 0) = Len(s)

\* re.split(r'[,;]\s*', t)
RECURSIVE SplitList(_)
SplitList(t) ==
  LET seps == {p \in 0..(Len(t) - 1) : t[p + 1] \in {",", ";"}}
  IN IF seps = {} THEN <<t>>
     ELSE LET p == MinOf(seps)
          IN <<Slice(t, 0, p)>>
             \o SplitList(Slice(t, SkipWhile(t, p + 1, SpaceChars), Len(t)))

\* mutant: range(start, end) without the + 1
ExpandRangeOpen(a, b) == IF b <= a THEN <<>> ELSE [i \in 1..(b - a) |-> a + i - 1]

\* list(range(start, end + 1))
ExpandRange(a, b) == IF b < a THEN <<>> ELSE [i \in 1..(b - a + 1) |-> a + i - 1]

\* one stripped part of _parse_numeric_list: re.match(r'(\d+)\s*-\s*(\d+)', part),
\* else part.isdigit()
ParsePart(part) ==
  LET d1 == SkipWhile(part, 0, DigitChars)
      s2 == SkipWhile(part, SkipWhile(part, d1, SpaceChars) + 1, SpaceChars)
  IN IF /\ d1 > 0
        /\ At(part, SkipWhile(part, d1, SpaceChars)) = "-"
        /\ SkipWhile(part, s2, DigitChars) > s2
     THEN ExpandRange(StrToInt(Slice(part, 0, d1)),
                      StrToInt(Slice(part, s2, SkipWhile(part, s2, DigitChars))))
     ELSE IF part # <<>> /\ d1 = Len(part) THEN <<StrToInt(part)>>
     ELSE <<>>

\* _parse_numeric_list
parse_numeric_list(t) ==
  LET parts == SplitList(t)
  IN Concat([i \in 1..Len(parts) |-> ParsePart(Strip(parts[i]))])

----------------------------------------------------------------------------
(* Specification of the numeric-list parser: a bracketed list is rendered   *)
(* from a sequence of items (<<n>> a number, <<a, b>> a range a-b), matched *)
(* by NUMERIC_BRACKET_RE and its group 1 parsed.                            *)

MaxItems == 2
MaxNum == 3

NumPool == (1..MaxNum) \cup {10}
NumItems == {<<n>> : n \in NumPool} \cup {x \in NumPool \X NumPool : x[1] <= x[2]}
NumSeparators == {<<",", " ">>, <<";">>, <<" ", ",", " ">>}
NumDashes == {<<"-">>, <<" ", "-", " ">>}

RenderItem(it, dash) ==
  IF Len(it) = 1 THEN IntToStr(it[1]) ELSE IntToStr(it[1]) \o dash \o IntToStr(it[2])

RECURSIVE RenderList(_, _, _)
RenderList(items, sep, dash) ==
  IF Len(items) = 1 THEN RenderItem(items[1], dash)
  ELSE RenderItem(items[1], dash) \o sep \o RenderList(Tail(items), sep, dash)

NumExampleItems == <<<<1>>, <<3, 5>>, <<7>>>>
NumExampleText == <<"[", "1", ",", " ", "3", "-", "5", ",", " ", "7", "]">>

NumInit ==
  /\ pc = "num_call"
  /\ doc = <<>>
  /\ doc0 = <<>>
  /\ \/ \E n \in 1..MaxItems : \E items \in [1..n -> NumItems] :
          \E sep \in NumSeparators, dash \in NumDashes :
             inp = [items |-> items,
                    text |-> <<"[">> \o RenderList(items, sep, dash) \o <<"]">>]
     \/ inp = [items |-> NumExampleItems, text |-> NumExampleText]
  /\ out = [nums |-> None]

\* extract_citations, numeric_bracket branch, on a text that is one bracketed list
ParseNumericList ==
  /\ pc = "num_call"
  /\ NumericBracketEnd(inp.text, 0) = Len(inp.text)
  /\ out' = [nums |-> parse_numeric_list(Slice(inp.text, 1, Len(inp.text) - 1))]
  /\ pc' = "num_done"
  /\ UNCHANGED <<doc, doc0, inp>>

NumNext == ParseNumericList

NumSpec == NumInit /\ [][NumNext]_vars

\* the integers an item stands for
ItemValues(it) ==
  IF Len(it) = 1 THEN <<it[1]>> ELSE [i \in 1..(it[2] - it[1] + 1) |-> it[1] + i - 1]

\* C9: the parser turns a list of numbers and ranges a-b (a <= b) into the
\* integers of the items in list order, every range expanded to a, a+1, ..., b
\* and duplicates kept; "[1, 3-5, 7]" gives 1, 3, 4, 5, 7.
C9_RangeExpansion ==
  /\ pc = "num_done" =>
       out.nums = Concat([i \in 1..Len(inp.items) |-> ItemValues(inp.items[i])])
  /\ (pc = "num_done" /\ inp.text = NumExampleText) => out.nums = <<1, 3, 4, 5, 7>>

C9_Witness ==
  /\ pc = "num_done"
  /\ inp.text = NumExampleText
  /\ out.nums = <<1, 3, 4, 5, 7>>

----------------------------------------------------------------------------
(* Author-year patterns.                                                    *)

\* [A-Z][a-z]+ at p: the end offset, or -1
NameEnd(t, p) ==
  IF At(t, p) \in UpperChars /\ At(t, p + 1) \in LowerChars
  THEN SkipWhile(t, p + 2, LowerChars) ELSE -1

\* \s(?:&|and)\s at q: the end offset, or -1
ConjEnd(t, q) ==
  IF At(t, q) \notin SpaceChars THEN -1
  ELSE IF At(t, q + 1) = "&" /\ At(t, q + 2) \in SpaceChars THEN q + 3
  ELSE IF /\ At(t, q + 1) = "a" /\ At(t, q + 2) = "n" /\ At(t, q + 3) = "d"
          /\ At(t, q + 4) \in SpaceChars THEN q + 5
  ELSE -1

\* (?:\s(?:&|and)\s[A-Z][a-z]+)* continued from q
RECURSIVE MoreNames(_, _)
MoreNames(t, q) ==
  LET n == NameEnd(t, ConjEnd(t, q))
  IN IF n # -1 THEN MoreNames(t, n) ELSE q

\* (?:\set\sal\.)? from q; with dot_optional the period may be missing (\.?)
EtAlEnd(t, q, dot_optional) ==
  IF /\ At(t, q) \in SpaceChars /\ At(t, q + 1) = "e" /\ At(t, q + 2) = "t"
     /\ At(t, q + 3) \in SpaceChars /\ At(t, q + 4) = "a" /\ At(t, q + 5) = "l"
  THEN IF At(t, q + 6) = "." THEN q + 7 ELSE IF dot_optional THEN q + 6 ELSE q
  ELSE q

\* the result of a citation core that does not match
NoCite == [ok |-> FALSE, ae |-> -1, ys |-> -1, ye |-> -1]

\* ,?\s*(\d{4}[a-z]?) after an author that ends at ae
CiteYear(t, ae) ==
  LET ys == SkipWhile(t, IF At(t, ae) = "," THEN ae + 1 ELSE ae, SpaceChars)
  IN IF \A k \in 0..3 : At(t, ys + k) \in DigitChars
     THEN [ok |-> TRUE, ae |-> ae, ys |-> ys,
           ye |-> IF At(t, ys + 4) \in LowerChars THEN ys + 5 ELSE ys + 4]
     ELSE NoCite

\* AUTHOR,?\s*(\d{4}[a-z]?) at p: author = t[p:ae], year = t[ys:ye]
CiteCore(t, p, dot_optional) ==
  IF NameEnd(t, p) = -1 THEN NoCite
  ELSE CiteYear(t, EtAlEnd(t, MoreNames(t, NameEnd(t, p)), dot_optional))

\* AUTHOR_YEAR_RE at p: the end offset of the match, or -1
AuthorYearEnd(t, p) ==
  IF At(t, p) = "(" THEN ClosedBy(t, CiteCore(t, p + 1, FALSE).ye, ")") ELSE -1

\* \s*;\s*AUTHOR,?\s*\d{4}[a-z]? at q: the end offset, or -1 (also for q = -1)
MultiItemEnd(t, q) ==
  LET a == SkipWhile(t, q, SpaceChars)
  IN IF q # -1 /\ At(t, a) = ";"
     THEN CiteCore(t, SkipWhile(t, a + 1, SpaceChars), TRUE).ye ELSE -1

\* further items continued from q, as many as match
RECURSIVE MultiTail(_, _)
MultiTail(t, q) ==
  LET e == MultiItemEnd(t, q)
  IN IF e # -1 THEN MultiTail(t, e) ELSE q

\* MULTI_AUTHOR_YEAR_RE at p: the end offset of the match, or -1
MultiEnd(t, p) ==
  IF At(t, p) = "("
  THEN ClosedBy(t, MultiTail(t, MultiItemEnd(t, CiteCore(t, p + 1, FALSE).ye)), ")")
  ELSE -1

\* INDIVIDUAL_AUTHOR_YEAR_RE at p: the end offset of the match, or -1
IndividualEnd(t, p) == CiteCore(t, p, FALSE).ye

\* pattern.finditer: the non-overlapping matches <<start, end>> from pos on,
\* leftmost first; E[p] is the end of the match at p or -1
RECURSIVE Scan(_, _, _)
Scan(E, n, pos) ==
  LET hits == {p \in pos..(n - 1) : E[p] # -1}
  IN IF hits = {} THEN <<>>
     ELSE LET p == MinOf(hits) IN <<<<p, E[p]>>>> \o Scan(E, n, E[p])

FindAuthorYear(t) == Scan([p \in 0..(Len(t) - 1) |-> AuthorYearEnd(t, p)], Len(t), 0)
FindMulti(t) == Scan([p \in 0..(Len(t) - 1) |-> MultiEnd(t, p)], Len(t), 0)
FindIndividual(t) == Scan([p \in 0..(Len(t) - 1) |-> IndividualEnd(t, p)], Len(t), 0)
FindNumericBracket(t) == Scan([p \in 0..(Len(t) - 1) |-> NumericBracketEnd(t, p)], Len(t), 0)

----------------------------------------------------------------------------
(* Paragraphs, detection and extraction.                                    *)

\* the value standing for get_heading_level's None
NoLevel == 0

\* get_heading_level: the N of a style named "Heading N", else None
get_heading_level(para) ==
  CASE para.style = "Heading 1" -> 1
    [] para.style = "Heading 2" -> 2
    [] OTHER -> NoLevel

SampleLimit == 20

\* mutant: heading paragraphs count toward the limit
SampledCountingHeadings(d, limit) ==
  {i \in 1..Len(d) : get_heading_level(d[i]) = NoLevel /\ i <= limit}

\* indices of the first `limit` non-heading paragraphs
SampledParas(d, limit) ==
  {i \in 1..Len(d) :
     /\ get_heading_level(d[i]) = NoLevel
     /\ Cardinality({j \in 1..i : get_heading_level(d[j]) = NoLevel}) <= limit}

IsSuperscriptCitation(run) == run.font.superscript /\ SuperscriptNum(Strip(RunText(run)))

\* _count_superscript_citations
count_superscript_citations(d, limit) ==
  Cardinality({i \in SampledParas(d, limit) :
                 \E k \in 1..Len(d[i].runs) : IsSuperscriptCitation(d[i].runs[k])})

STYLE_NAMES == <<"author_year", "numeric_bracket", "superscript">>

\* the tallies of detect_input_style, in the order of STYLE_NAMES
StyleCounts(d) ==
  <<Cardinality({i \in SampledParas(d, SampleLimit) :
       LET text == merge_paragraph_runs(d[i].runs)
       IN FindAuthorYear(text) # <<>> \/ FindMulti(text) # <<>>}),
    Cardinality({i \in SampledParas(d, SampleLimit) :
       FindNumericBracket(merge_paragraph_runs(d[i].runs)) # <<>>}),
    count_superscript_citations(d, SampleLimit)>>

\* mutant: the last maximal count wins
LastMax(counts) ==
  MaxOf({i \in 1..Len(counts) : \A j \in 1..Len(counts) : counts[j] <= counts[i]})

\* max(names, key=...): the index of the first maximal count
FirstMax(counts) ==
  MinOf({i \in 1..Len(counts) : \A j \in 1..Len(counts) : counts[j] <= counts[i]})

\* detect_input_style
detect_input_style(d) == STYLE_NAMES[FirstMax(StyleCounts(d))]

\* author / year of an occurrence that has none (Python None)
NoText == <<None>>
NoGroups == [author |-> NoText, year |-> NoText]

\* group(1), group(2) of the citation core c matched at offset s of t
Groups(t, s, c) == [author |-> Slice(t, s, c.ae), year |-> Slice(t, c.ys, c.ye)]

Occurrence(idx, lit, ay, numbers, multi) ==
  [para_idx |-> idx, match_text |-> lit, author |-> ay.author, year |-> ay.year,
   numbers |-> numbers, is_multi |-> multi]

\* the members of the multi-citation full_match
MultiMembers(idx, full_match) ==
  LET inner == Slice(full_match, 1, Len(full_match) - 1)
      ims == FindIndividual(inner)
  IN [k \in 1..Len(ims) |->
        Occurrence(idx, full_match,
                   Groups(inner, ims[k][1], CiteCore(inner, ims[k][1], FALSE)), <<>>, TRUE)]

\* extract_citations, author_year branch, for one paragraph: the members of the
\* multi-citations, then the single citations outside them
ExtractAuthorYear(text, idx, multi_matches, ay_matches) ==
  LET singles == SelectSeq(ay_matches,
                   LAMBDA m : ~\E k \in 1..Len(multi_matches) :
                      multi_matches[k][1] <= m[1] /\ m[2] <= multi_matches[k][2])
  IN Concat([k \in 1..Len(multi_matches) |->
               MultiMembers(idx, Slice(text, multi_matches[k][1], multi_matches[k][2]))])
     \o [k \in 1..Len(singles) |->
           Occurrence(idx, Slice(text, singles[k][1], singles[k][2]),
                      Groups(text, singles[k][1] + 1, CiteCore(text, singles[k][1] + 1, FALSE)),
                      <<>>, FALSE)]

\* extract_citations for one paragraph
ExtractPara(para, idx, style) ==
  CASE style = "author_year" ->
         ExtractAuthorYear(merge_paragraph_runs(para.runs), idx,
                           FindMulti(merge_paragraph_runs(para.runs)),
                           FindAuthorYear(merge_paragraph_runs(para.runs)))
    [] style = "numeric_bracket" ->
         LET text == merge_paragraph_runs(para.runs)
             ms == FindNumericBracket(text)
         IN [k \in 1..Len(ms) |->
               Occurrence(idx, Slice(text, ms[k][1], ms[k][2]), NoGroups,
                          parse_numeric_list(Slice(text, ms[k][1] + 1, ms[k][2] - 1)), FALSE)]
    [] OTHER ->
         LET rs == SelectSeq(para.runs, IsSuperscriptCitation)
         IN [k \in 1..Len(rs) |->
               Occurrence(idx, RunText(rs[k]), NoGroups,
                          parse_numeric_list(Strip(RunText(rs[k]))), FALSE)]

\* mutant: heading paragraphs are scanned too
extract_citations_everywhere(d, style) ==
  Concat([i \in 1..Len(d) |-> ExtractPara(d[i], i, style)])

\* extract_citations
extract_citations(d, style) ==
  Concat([i \in 1..Len(d) |->
            IF get_heading_level(d[i]) # NoLevel THEN <<>> ELSE ExtractPara(d[i], i, style)])

----------------------------------------------------------------------------
(* The citation map: a dict in insertion order, a sequence of [k, v].       *)

MapHas(m, k) == \E i \in 1..Len(m) : m[i].k = k
MapGet(m, k) == m[CHOOSE i \in 1..Len(m) : m[i].k = k].v

\* m[k] = v: a new key is appended, an old key keeps its place
MapPut(m, k, v) ==
  IF MapHas(m, k) THEN [i \in 1..Len(m) |-> IF m[i].k = k THEN [k |-> k, v |-> v] ELSE m[i]]
  ELSE Append(m, [k |-> k, v |-> v])

\* the loop of build_citation_map over citations[i..]; st = [cmap, counter, current_num]
RECURSIVE MapLoop(_, _, _)
MapLoop(citations, i, st) ==
  IF i > Len(citations) THEN st
  ELSE
    LET cit == citations[i]
        key == cit.match_text
        ay_key == <<cit.author, cit.year>>
    IN IF MapHas(st.cmap, key) THEN MapLoop(citations, i + 1, st)
       ELSE IF ay_key # <<NoText, NoText>>
       THEN LET fresh == ~MapHas(st.counter, ay_key)
                counter == IF fresh THEN MapPut(st.counter, ay_key, st.current_num) ELSE st.counter
            IN MapLoop(citations, i + 1,
                 [cmap |-> MapPut(st.cmap, key, MapGet(counter, ay_key)),
                  counter |-> counter,
                  current_num |-> IF fresh THEN st.current_num + 1 ELSE st.current_num])
       ELSE IF cit.numbers # <<>>
       THEN MapLoop(citations, i + 1, [st EXCEPT !.cmap = MapPut(@, key, cit.numbers[1])])
       ELSE MapLoop(citations, i + 1,
              [st EXCEPT !.cmap = MapPut(@, key, st.current_num), !.current_num = @ + 1])

\* mutant: the ids an occurrence carries are not kept, every literal is numbered
\* in sequence
build_citation_map_renumbered(citations, target_style) ==
  IF target_style \in {"numeric_bracket", "superscript"}
  THEN MapLoop([i \in 1..Len(citations) |-> [citations[i] EXCEPT !.numbers = <<>>]], 1,
               [cmap |-> <<>>, counter |-> <<>>, current_num |-> 1]).cmap
  ELSE <<>>

\* build_citation_map
build_citation_map(citations, target_style) ==
  IF target_style \in {"numeric_bracket", "superscript"}
  THEN MapLoop(citations, 1, [cmap |-> <<>>, counter |-> <<>>, current_num |-> 1]).cmap
  ELSE <<>>

----------------------------------------------------------------------------
(* Alphabetical re-keying.                                                  *)

\* the characters in code-point order
CodeOrder == <<TAB, " ", "&", "(", ")", ",", "-", ".">> \o Digits \o <<";">>
             \o Uppers \o <<"[", "]">> \o Lowers
Code(c) == CHOOSE i \in 1..Len(CodeOrder) : CodeOrder[i] = c

\* str.lower()
Lower(t) == [i \in 1..Len(t) |->
               IF t[i] \in UpperChars THEN Lowers[CHOOSE k \in 1..26 : Uppers[k] = t[i]] ELSE t[i]]

\* a < b for strings
RECURSIVE StrLess(_, _)
StrLess(a, b) ==
  IF b = <<>> THEN FALSE
  ELSE IF a = <<>> THEN TRUE
  ELSE IF a[1] # b[1] THEN Code(a[1]) < Code(b[1])
  ELSE StrLess(Tail(a), Tail(b))

\* key(x) < key(y) for key = (author.lower(), year)
AlphaLess(x, y) ==
  \/ StrLess(Lower(x[1]), Lower(y[1]))
  \/ Lower(x[1]) = Lower(y[1]) /\ StrLess(x[2], y[2])

\* sorted(S, key=...)
RECURSIVE SortedPairs(_)
SortedPairs(S) ==
  IF S = {} THEN <<>>
  ELSE LET x == CHOOSE x \in S : \A y \in S : ~AlphaLess(y, x)
       IN <<x>> \o SortedPairs(S \ {x})

\* the re-keying loop of apply_citations (alphabetical order)
RECURSIVE AlphaLoop(_, _, _, _)
AlphaLoop(citations, i, sorted_keys, cit_map) ==
  IF i > Len(citations) THEN cit_map
  ELSE
    LET ay == <<citations[i].author, citations[i].year>>
        rank == {k \in 1..Len(sorted_keys) : sorted_keys[k] = ay}
    IN AlphaLoop(citations, i + 1, sorted_keys,
         IF rank = {} THEN cit_map
         ELSE MapPut(cit_map, citations[i].match_text, MinOf(rank)))

AlphaRekey(citations, cit_map) ==
  AlphaLoop(citations, 1,
    SortedPairs({<<citations[i].author, citations[i].year>> :
                   i \in {j \in 1..Len(citations) :
                            citations[j].author # NoText /\ citations[j].author # <<>>}}),
    cit_map)

----------------------------------------------------------------------------
(* apply_citations.                                                         *)

\* the replacement field of a citation format
NUM == "{num}"

\* fmt.format(num=s): fmt is a sequence of characters and NUM fields
FormatNum(fmt, s) == Concat([i \in 1..Len(fmt) |-> IF fmt[i] = NUM THEN s ELSE <<fmt[i]>>])

\* sep.join(parts)
RECURSIVE Join(_, _)
Join(parts, sep) ==
  IF parts = <<>> THEN <<>>
  ELSE IF Len(parts) = 1 THEN parts[1]
  ELSE parts[1] \o sep \o Join(Tail(parts), sep)

Contains(t, sub) == Find(t, sub) # -1

\* sorted(para_cits, key=lambda c: full_text.rfind(c["match_text"]), reverse=True):
\* the indices I of para_cits by descending key, equal keys in their original order
RECURSIVE SortedDesc(_, _, _)
SortedDesc(para_cits, full_text, I) ==
  IF I = {} THEN <<>>
  ELSE LET key(i) == RFind(full_text, para_cits[i].match_text)
           top == {i \in I : \A j \in I : key(j) <= key(i)}
           i == MinOf(top)
       IN <<para_cits[i]>> \o SortedDesc(para_cits, full_text, I \ {i})

\* the number gathered for member c of a multi-citation: <<n>>, or <<>> for None
MemberNumber(c, cit_map) ==
  LET n0 == IF MapHas(cit_map, c.match_text) THEN <<MapGet(cit_map, c.match_text)>> ELSE <<>>
      ay_key_str == <<"(">> \o c.author \o <<",", " ">> \o c.year \o <<")">>
      n1 == IF MapHas(cit_map, ay_key_str) THEN <<MapGet(cit_map, ay_key_str)>> ELSE n0
      hits == {i \in 1..Len(cit_map) :
                 /\ c.author # <<>> /\ Contains(cit_map[i].k, c.author)
                 /\ c.year # <<>> /\ Contains(cit_map[i].k, c.year)}
  IN IF hits # {} THEN <<cit_map[MinOf(hits)].v>> ELSE n1

\* the superscript-source branch: the first superscript run whose stripped text
\* is the stripped literal gets the new text (and loses superscript)
ReplaceSuperscriptRun(runs, old, new_text, use_superscript) ==
  LET hits == {k \in 1..Len(runs) :
                 runs[k].font.superscript /\ Strip(RunText(runs[k])) = Strip(old)}
  IN IF hits = {} THEN [ok |-> FALSE, runs |-> runs]
     ELSE LET k == MinOf(hits)
              r1 == [runs EXCEPT ![k] = SetRunText(@, new_text)]
          IN [ok |-> TRUE,
              runs |-> IF use_superscript THEN r1 ELSE SetSuperscript(r1, k, FALSE)]

\* The state of apply_citations is one record g:
\*   doc, warnings, citations_reformatted, replaced_multi change in Step 6;
\*   path, input_style, citations, cit_map, citations_found are fixed before it.
CiteResult(d, path, input_style, warnings, citations, cit_map) ==
  [doc |-> d, path |-> path, input_style |-> input_style, warnings |-> warnings,
   citations |-> citations, cit_map |-> cit_map, citations_found |-> Len(citations),
   citations_reformatted |-> 0, replaced_multi |-> {}]

Warn(g, kind, lit) == [g EXCEPT !.warnings = Append(@, [kind |-> kind, lit |-> lit])]

\* mutant: a successful replacement is counted once more than its occurrences
ReplacedOvercounted(g, i, r, count, kind, old) ==
  IF r.ok THEN [g EXCEPT !.doc[i].runs = r.runs, !.citations_reformatted = @ + count + 1]
  ELSE Warn(g, kind, old)

\* after a replacement in paragraph i that returned r = [ok, runs]: the count is
\* added on success, a warning otherwise
Replaced(g, i, r, count, kind, old) ==
  IF r.ok THEN [g EXCEPT !.doc[i].runs = r.runs, !.citations_reformatted = @ + count]
  ELSE Warn(g, kind, old)

\* the numbers gathered for the members of the multi-citation old
MultiNums(para_cits, old, cit_map) ==
  LET group == SelectSeq(para_cits, LAMBDA c : c.is_multi /\ c.match_text = old)
  IN Concat([k \in 1..Len(group) |-> MemberNumber(group[k], cit_map)])

\* the text that replaces a multi-citation
MultiText(cx, multi_nums) ==
  LET strs == [k \in 1..Len(multi_nums) |-> IntToStr(multi_nums[k])]
  IN IF cx.use_superscript THEN Join(strs, <<",">>)
     ELSE FormatNum(cx.target_fmt, Join(strs, <<",", " ">>))

\* "if multi_nums:" and the replacement of the whole group
ReplaceMulti(cx, g, old, multi_nums) ==
  IF multi_nums = <<>> THEN g
  ELSE Replaced(g, cx.para_idx,
                replace_in_runs(g.doc[cx.para_idx].runs, old, MultiText(cx, multi_nums),
                                cx.use_superscript),
                Len(multi_nums), "multi_not_replaced", old)

\* one iteration of "for cit in para_cits_sorted"
\* cx = [para_idx, para_cits, target_fmt, use_superscript, input_style]
CitStep(cx, cit, g) ==
  LET old == cit.match_text
      new_text == FormatNum(cx.target_fmt, IntToStr(MapGet(g.cit_map, old)))
  IN IF cit.is_multi
     THEN IF <<cx.para_idx, old>> \in g.replaced_multi THEN g
          ELSE ReplaceMulti(cx, [g EXCEPT !.replaced_multi = @ \cup {<<cx.para_idx, old>>}],
                            old, MultiNums(cx.para_cits, old, g.cit_map))
     ELSE IF ~MapHas(g.cit_map, old) THEN Warn(g, "not_mapped", old)
     ELSE IF cx.input_style = "superscript"
     THEN Replaced(g, cx.para_idx,
                   ReplaceSuperscriptRun(g.doc[cx.para_idx].runs, old, new_text,
                                         cx.use_superscript),
                   1, "no_superscript_run", old)
     ELSE Replaced(g, cx.para_idx,
                   replace_in_runs(g.doc[cx.para_idx].runs, old, new_text, cx.use_superscript),
                   1, "not_replaced", old)

RECURSIVE CitLoop(_, _, _, _)
CitLoop(cx, sorted, i, g) ==
  IF i > Len(sorted) THEN g ELSE CitLoop(cx, sorted, i + 1, CitStep(cx, sorted[i], g))

\* "for para_idx, para_cits in by_para.items()" from paragraph i on
\* cx0 = [target_fmt, use_superscript, input_style]
RECURSIVE ParaLoop(_, _, _)
ParaLoop(cx0, i, g) ==
  IF i > Len(g.doc) THEN g
  ELSE
    LET para_cits == SelectSeq(g.citations, LAMBDA c : c.para_idx = i)
    IN ParaLoop(cx0, i + 1,
         IF para_cits = <<>> THEN g
         ELSE CitLoop([para_idx |-> i, para_cits |-> para_cits,
                       target_fmt |-> cx0.target_fmt,
                       use_superscript |-> cx0.use_superscript,
                       input_style |-> cx0.input_style],
                      SortedDesc(para_cits, merge_paragraph_runs(g.doc[i].runs),
                                 1..Len(para_cits)),
                      1, g))

\* Step 5: build_citation_map and the alphabetical re-keying
CitationMap(citations, config, input_style) ==
  IF /\ config.sort = "alphabetical"
     /\ input_style = "author_year"
     /\ config.type \in {"numeric_bracket", "superscript"}
  THEN AlphaRekey(citations, build_citation_map(citations, config.type))
  ELSE build_citation_map(citations, config.type)

\* mutant: the superscript branch of Step 4 is lost
InfeasibleNumericOnly(input_style, target_type) ==
  input_style = "numeric_bracket" /\ target_type = "author_year"

\* Step 4: numeric or superscript citations cannot become author-year ones
Infeasible(input_style, target_type) ==
  input_style \in {"numeric_bracket", "superscript"} /\ target_type = "author_year"

\* apply_citations from the early return of Step 2 on
ConvertCitations(d, config, input_style, citations) ==
  IF input_style = config.type
  THEN CiteResult(d, "already", input_style, <<[kind |-> "already", lit |-> <<>>]>>,
                  citations, <<>>)
  ELSE IF citations = <<>>
  THEN CiteResult(d, "none", input_style, <<[kind |-> "no_citations", lit |-> <<>>]>>,
                  citations, <<>>)
  ELSE IF Infeasible(input_style, config.type)
  THEN CiteResult(d, "infeasible", input_style, <<[kind |-> "cannot_convert", lit |-> <<>>]>>,
                  citations, <<>>)
  ELSE ParaLoop([target_fmt |-> config.format,
                 use_superscript |-> (config.type = "superscript"),
                 input_style |-> input_style],
                1,
                CiteResult(d, "converted", input_style, <<>>, citations,
                           CitationMap(citations, config, input_style)))

\* apply_citations once the input style is detected
ConvertFrom(d, config, input_style) ==
  ConvertCitations(d, config, input_style, extract_citations(d, input_style))

\* apply_citations(doc, config), config = [type, format, sort]
apply_citations(d, config) == ConvertFrom(d, config, detect_input_style(d))

----------------------------------------------------------------------------
(* Specification of apply_citations: a document of up to MaxParas           *)
(* paragraphs taken from a pool, a configuration, and the rewriter run on   *)
(* it, then run again on its own output with the same configuration.        *)

MaxParas == 2

ParaScenarioA ==
  MkPara("Normal", <<
     MkRun(<<"P", "r", "i", "o", "r", " ", "w", "o", "r", "k", " ", "(", "S", "m", "i", "t", "h", ",", " ", "2", "0", "2", "0", ")", " ", "c", "o", "n", "f", "i", "r", "m", "s", " ", "t", "h", "i", "s", ";", " ", "s", "e", "e", " ", "a", "l", "s", "o", " ", "(", "J", "o", "n", "e", "s", " ", "&", " ", "L", "e", "e", ",", " ", "2", "0", "2", "1", ")", ".">>, 1, FALSE)>>)

ParaScenarioASplit ==
  MkPara("Normal", <<
     MkRun(<<"P", "r", "i", "o", "r", " ", "w", "o", "r", "k", " ", "(", "S", "m", "i">>, 1, FALSE),
     MkRun(<<"t", "h", ",", " ", "2", "0", "2", "0", ")", " ", "c", "o", "n", "f", "i", "r", "m", "s", " ", "t", "h", "i", "s", ";", " ", "s", "e", "e", " ", "a", "l", "s", "o", " ">>, 2, FALSE),
     MkRun(<<"(", "J", "o", "n", "e", "s", " ", "&", " ", "L", "e", "e", ",", " ", "2", "0", "2", "1", ")">>, 3, FALSE),
     MkRun(<<".">>, 4, FALSE)>>)

ParaScenarioB ==
  MkPara("Normal", <<
     MkRun(<<"(", "S", "m", "i", "t", "h", ",", " ", "2", "0", "2", "0", ";", " ", "J", "o", "n", "e", "s", ",", " ", "2", "0", "1", "9", ")">>, 1, FALSE)>>)

ParaJones ==
  MkPara("Normal", <<
     MkRun(<<"(", "J", "o", "n", "e", "s", ",", " ", "2", "0", "1", "9", ")">>, 1, FALSE)>>)

ParaGroupTwice ==
  MkPara("Normal", <<
     MkRun(<<"(", "S", "m", "i", "t", "h", ",", " ", "2", "0", "2", "0", ";", " ", "J", "o", "n", "e", "s", ",", " ", "2", "0", "1", "9", ")", " ", "x", " ", "(", "S", "m", "i", "t", "h", ",", " ", "2", "0", "2", "0", ";", " ", "J", "o", "n", "e", "s", ",", " ", "2", "0", "1", "9", ")">>, 1, FALSE)>>)

ParaTabbed ==
  MkPara("Normal", <<
     MkRun(<<"\t", "s", "e", "e", " ", "(", "S", "m", "i", "t", "h", ",", " ", "2", "0", "2", "0", ")", ".">>, 1, FALSE)>>)

ParaSameTwice ==
  MkPara("Normal", <<
     MkRun(<<"a", "s", " ", "(", "S", "m", "i", "t", "h", ",", " ", "2", "0", "2", "0", ")", " ", "a", "n", "d", " ">>, 1, FALSE),
     MkRun(<<"(", "S", "m", "i", "t", "h", ",", " ", "2", "0", "2", "0", ")", " ", "s", "h", "o", "w">>, 2, FALSE)>>)

ParaNumeric ==
  MkPara("Normal", <<
     MkRun(<<"s", "e", "e", " ", "[", "1", ",", " ", "3", "-", "5", ",", " ", "7", "]", " ", "a", "n", "d", " ", "[", "2", "]">>, 1, FALSE)>>)

ParaNumericTabbed ==
  MkPara("Normal", <<
     MkRun(<<"\t", "[", "7", "]", " ", "[", "5", "-", "3", "]">>, 1, FALSE)>>)

ParaSuperscript ==
  MkPara("Normal", <<
     MkRun(<<"s", "e", "e">>, 1, FALSE),
     MkRun(<<"1">>, 2, TRUE),
     MkRun(<<" ", "a", "n", "d", " ">>, 3, FALSE),
     MkRun(<<" ", "2", ",", "3", " ">>, 4, TRUE)>>)

ParaPlain ==
  MkPara("Normal", <<
     MkRun(<<"p", "l", "a", "i", "n", " ", "t", "e", "x", "t">>, 1, FALSE)>>)

ParaHeading ==
  MkPara("Heading 1", <<
     MkRun(<<"(", "S", "m", "i", "t", "h", ",", " ", "2", "0", "2", "0", ")">>, 1, FALSE)>>)

CitePool == {ParaScenarioA, ParaScenarioASplit, ParaScenarioB, ParaJones, ParaGroupTwice, ParaTabbed, ParaSameTwice, ParaNumeric, ParaNumericTabbed, ParaSuperscript, ParaPlain, ParaHeading}

CiteFormats == {<<"[", NUM, "]">>, <<NUM>>}

CiteConfigs == [type : {"author_year", "numeric_bracket", "superscript"},
                format : CiteFormats,
                sort : {"order_of_appearance", "alphabetical"}]

CiteInit ==
  /\ pc = "cite_call"
  /\ \E n \in 1..MaxParas : doc \in [1..n -> CitePool]
  /\ doc0 = doc
  /\ inp \in [config : CiteConfigs]
  /\ out = [path |-> None]

ApplyCitations ==
  /\ pc \in {"cite_call", "cite_done"}
  /\ \E r \in {apply_citations(doc, inp.config)} :
        /\ doc' = r.doc
        /\ out' = [path |-> r.path, input_style |-> r.input_style, warnings |-> r.warnings,
                   citations |-> r.citations, cit_map |-> r.cit_map,
                   citations_found |-> r.citations_found,
                   citations_reformatted |-> r.citations_reformatted]
  /\ doc0' = doc
  /\ pc' = IF pc = "cite_call" THEN "cite_done" ELSE "cite_twice"
  /\ UNCHANGED inp

CiteNext == ApplyCitations

CiteSpec == CiteInit /\ [][CiteNext]_vars

CiteRan == pc \in {"cite_done", "cite_twice"}
CiteOnce == pc = "cite_done"
NumericTarget == inp.config.type \in {"numeric_bracket", "superscript"}
BodyText0(i) == merge_paragraph_runs(doc0[i].runs)
BodyText1(i) == merge_paragraph_runs(doc[i].runs)

\* the identifier the map yields for an occurrence
Identifier(m, c) == MapGet(m, c.match_text)

\* C4: in the map build_citation_map returns for a numeric_bracket or
\* superscript target, two occurrences that carry the same (author, year) pair,
\* single or member of a group and whatever their literal, have the same
\* identifier.
C4_SamePairSameIdentifier ==
  (CiteOnce /\ NumericTarget /\ out.input_style = "author_year") =>
     LET m == build_citation_map(out.citations, inp.config.type)
     IN \A i, j \in 1..Len(out.citations) :
          (/\ out.citations[i].author = out.citations[j].author
           /\ out.citations[i].year = out.citations[j].year)
          => Identifier(m, out.citations[i]) = Identifier(m, out.citations[j])

\* C5: the document whose only citation is "(Smith, 2020; Jones, 2019)",
\* converted to superscript, holds one spliced run with text "1,2" (the
\* identifiers of the two members' own pairs, in member order) and superscript set.
C5_GroupListsMemberIdentifiers ==
  (CiteOnce /\ doc0 = <<ParaScenarioB>> /\ inp.config.type = "superscript") =>
     \E k \in 1..Len(doc[1].runs) :
        /\ RunText(doc[1].runs[k]) = <<"1", ",", "2">>
        /\ doc[1].runs[k].font.superscript

\* the number of the (author, year) pair ay in order of first appearance
AppearanceNumber(cits, ay) ==
  LET first == MinOf({j \in 1..Len(cits) : <<cits[j].author, cits[j].year>> = ay})
  IN Cardinality({<<cits[j].author, cits[j].year>> : j \in 1..first})

\* text with the single citations ms[k..] replaced by "[n]", n the appearance
\* number of the citation's pair, and every other character kept
RECURSIVE NumberedText(_, _, _, _, _)
NumberedText(text, ms, k, pos, cits) ==
  IF k > Len(ms) THEN Slice(text, pos, Len(text))
  ELSE LET g == Groups(text, ms[k][1] + 1, CiteCore(text, ms[k][1] + 1, FALSE))
       IN Slice(text, pos, ms[k][1])
          \o <<"[">> \o IntToStr(AppearanceNumber(cits, <<g.author, g.year>>)) \o <<"]">>
          \o NumberedText(text, ms, k + 1, ms[k][2], cits)

\* a run with target numeric_bracket, format "[{num}]", appearance order, on a
\* document detected as author_year whose citations are all single citations
SinglesToBrackets ==
  /\ CiteOnce
  /\ inp.config = [type |-> "numeric_bracket", format |-> <<"[", NUM, "]">>,
                   sort |-> "order_of_appearance"]
  /\ out.input_style = "author_year"
  /\ out.citations # <<>>
  /\ \A k \in 1..Len(out.citations) : ~out.citations[k].is_multi

SinglesNumbered ==
  /\ \A i \in 1..Len(doc0) :
        BodyText1(i) = IF get_heading_level(doc0[i]) # NoLevel THEN BodyText0(i)
                       ELSE NumberedText(BodyText0(i), FindAuthorYear(BodyText0(i)), 1, 0,
                                         out.citations)
  /\ out.citations_found = Len(out.citations)
  /\ out.citations_reformatted = Len(out.citations)

\* C6: with target numeric_bracket, format "[{num}]" and appearance order, every
\* single author-year citation of a paragraph is replaced by "[n]", n its
\* appearance-order number, every other character is unchanged, and
\* citations_found and citations_reformatted both equal the number of citations.
C6_SinglesNumberedInPlace == SinglesToBrackets => SinglesNumbered

\* C6 where no paragraph holds a tab: the same statement
C6_SinglesNumberedWithoutTab ==
  (SinglesToBrackets /\ \A i \in 1..Len(doc0) : \A k \in 1..Len(BodyText0(i)) :
      BodyText0(i)[k] # TAB) => SinglesNumbered

\* C6, the example: "Prior work (Smith, 2020) confirms this; see also
\* (Jones & Lee, 2021)." becomes "Prior work [1] confirms this; see also [2]."
\* with citations_found = 2 and citations_reformatted = 2
C6_ExampleRewritten ==
  (SinglesToBrackets /\ doc0 \in {<<ParaScenarioA>>, <<ParaScenarioASplit>>}) =>
     /\ BodyText1(1) = <<"P", "r", "i", "o", "r", " ", "w", "o", "r", "k", " ", "[", "1", "]",
                         " ", "c", "o", "n", "f", "i", "r", "m", "s", " ", "t", "h", "i", "s",
                         ";", " ", "s", "e", "e", " ", "a", "l", "s", "o", " ", "[", "2", "]",
                         ".">>
     /\ out.citations_found = 2
     /\ out.citations_reformatted = 2

\* C7: a second run of apply_citations with the same configuration on the
\* document the first run produced changes nothing in the document.
C7_SecondRunNoMutation == pc = "cite_twice" => doc = doc0

\* the citation occurrences of the detected numeric style, counted on the document
NumericOccurrences(d, style) ==
  IF style = "numeric_bracket"
  THEN Len(Concat([i \in 1..Len(d) |->
             IF get_heading_level(d[i]) # NoLevel THEN <<>>
             ELSE FindNumericBracket(merge_paragraph_runs(d[i].runs))]))
  ELSE Len(Concat([i \in 1..Len(d) |->
             IF get_heading_level(d[i]) # NoLevel THEN <<>>
             ELSE SelectSeq(d[i].runs, IsSuperscriptCitation)]))

\* C8: when the detected style is numeric_bracket or superscript and the target
\* is author_year, no run of the document changes, the one warning says that the
\* conversion cannot be done, citations_reformatted is 0 and citations_found is
\* the number of numeric citation occurrences.
C8_InfeasibleRefused ==
  (CiteRan /\ out.input_style \in {"numeric_bracket", "superscript"}
           /\ inp.config.type = "author_year") =>
     /\ doc = doc0
     /\ out.warnings = <<[kind |-> "cannot_convert", lit |-> <<>>]>>
     /\ out.citations_reformatted = 0
     /\ out.citations_found = NumericOccurrences(doc0, out.input_style)

C8_Witness ==
  /\ CiteOnce
  /\ doc0 = <<ParaSuperscript>>
  /\ out.input_style = "superscript"
  /\ inp.config.type = "author_year"
  /\ doc = doc0
  /\ out.citations_found = 2
  /\ out.warnings = <<[kind |-> "cannot_convert", lit |-> <<>>]>>

----------------------------------------------------------------------------
(* Headings and sections (document_parser.py).  Paragraph indices are       *)
(* 0-based as in the code; paragraph idx of the code is d[idx + 1].         *)

\* paragraph.text
ParaText(para) == merge_paragraph_runs(para.runs)

\* (?:\.\d+)* continued from q: <<the offset where the last group began or
\* prev, the offset after the last group>>
RECURSIVE DottedGroups(_, _, _)
DottedGroups(t, q, prev) ==
  IF At(t, q) = "." /\ SkipWhile(t, q + 1, DigitChars) > q + 1
  THEN DottedGroups(t, SkipWhile(t, q + 1, DigitChars), q)
  ELSE <<prev, q>>

\* ^\d+(?:\.\d+)*[\.\)]\s* on t: the end offset of the match, 0 when there is
\* none; g = DottedGroups after the leading digits.  When no "." or ")" follows
\* the last group, the pattern gives that group back and takes its "." instead.
HeadingNumberEnd(t, g) ==
  IF SkipWhile(t, 0, DigitChars) = 0 THEN 0
  ELSE IF At(t, g[2]) \in {".", ")"} THEN SkipWhile(t, g[2] + 1, SpaceChars)
  ELSE IF g[1] # -1 THEN g[1] + 1
  ELSE 0

\* strip_heading_number
strip_heading_number(text) ==
  Slice(Strip(text),
        HeadingNumberEnd(Strip(text),
                         DottedGroups(Strip(text), SkipWhile(Strip(text), 0, DigitChars), -1)),
        Len(Strip(text)))

\* mutant: the ends are left at the placeholder
get_all_sections_unpatched(d) ==
  LET heads == SelectSeq([i \in 1..Len(d) |-> i - 1],
                         LAMBDA idx : get_heading_level(d[idx + 1]) # NoLevel)
  IN [k \in 1..Len(heads) |->
        [heading |-> ParaText(d[heads[k] + 1]),
         level |-> get_heading_level(d[heads[k] + 1]),
         start |-> heads[k],
         end |-> Len(d)]]

\* get_all_sections: one section per heading paragraph, its end the start of
\* the next heading or the paragraph count
get_all_sections(d) ==
  LET heads == SelectSeq([i \in 1..Len(d) |-> i - 1],
                         LAMBDA idx : get_heading_level(d[idx + 1]) # NoLevel)
  IN [k \in 1..Len(heads) |->
        [heading |-> ParaText(d[heads[k] + 1]),
         level |-> get_heading_level(d[heads[k] + 1]),
         start |-> heads[k],
         end |-> IF k < Len(heads) THEN heads[k + 1] ELSE Len(d)]]

\* the first section of sections whose heading, number stripped and lowered,
\* is in normalised: <<start, end>>, or <<>> for None
FirstSection(sections, normalised) ==
  LET hits == {k \in 1..Len(sections) :
                 Lower(strip_heading_number(sections[k].heading)) \in normalised}
  IN IF hits = {} THEN <<>>
     ELSE <<sections[MinOf(hits)].start, sections[MinOf(hits)].end>>

\* find_section_by_heading
find_section_by_heading(d, heading_texts) ==
  FirstSection(get_all_sections(d), {Lower(Strip(h)) : h \in heading_texts})

----------------------------------------------------------------------------
(* The reference parser (references.py).                                    *)

REF_HEADINGS ==
  {<<"R", "e", "f", "e", "r", "e", "n", "c", "e", "s">>,
   <<"B", "i", "b", "l", "i", "o", "g", "r", "a", "p", "h", "y">>,
   <<"W", "o", "r", "k", "s", " ", "C", "i", "t", "e", "d">>,
   <<"L", "i", "t", "e", "r", "a", "t", "u", "r", "e", " ", "C", "i", "t", "e", "d">>,
   <<"C", "i", "t", "a", "t", "i", "o", "n", "s">>,
   <<"R", "e", "f", "e", "r", "e", "n", "c", "e", " ", "L", "i", "s", "t">>,
   <<"C", "i", "t", "e", "d", " ", "L", "i", "t", "e", "r", "a", "t", "u", "r", "e">>,
   <<"L", "i", "t", "e", "r", "a", "t", "u", "r", "e", " ", "R", "e", "f", "e", "r", "e", "n", "c", "e", "s">>}

\* find_references_section
find_references_section(d) == find_section_by_heading(d, REF_HEADINGS)

\* pattern.search: the offset of the leftmost match, E[p] being the end of the
\* match at p or -1; -1 when there is none
FirstMatch(E, n) ==
  LET hits == {p \in 0..(n - 1) : E[p] # -1}
  IN IF hits = {} THEN -1 ELSE MinOf(hits)

\* _NUMBER_PREFIX_RE (^\s*(?:\[?\d+[\].)]\s*)): the end of the match, 0 for none;
\* b is the offset of the digits
NumberPrefixEnd(t, b) ==
  IF /\ SkipWhile(t, b, DigitChars) > b
     /\ At(t, SkipWhile(t, b, DigitChars)) \in {"]", ".", ")"}
  THEN SkipWhile(t, SkipWhile(t, b, DigitChars) + 1, SpaceChars)
  ELSE 0

\* _NUMBER_PREFIX_RE.sub("", t)
StripNumberPrefix(t) ==
  LET a == SkipWhile(t, 0, SpaceChars)
  IN Slice(t, NumberPrefixEnd(t, IF At(t, a) = "[" THEN a + 1 ELSE a), Len(t))

\* the literal lit at p, letters compared without case (re.IGNORECASE)
LitAt(t, p, lit) == Lower(Slice(t, p, p + Len(lit))) = lit

\* \S+ from g: the offset after the run of non-space characters
NonSpaceEnd(t, g) ==
  MinOf({e \in g..Len(t) : e = Len(t) \/ t[e + 1] \in SpaceChars})

\* the prefix (?:doi:\s*|https?://doi\.org/) of _DOI_RE at p: the offset where
\* group 1 would begin, or -1
DoiPrefixEnd(t, p) ==
  IF LitAt(t, p, <<"d", "o", "i", ":">>) THEN SkipWhile(t, p + 4, SpaceChars)
  ELSE IF LitAt(t, p, <<"h", "t", "t", "p", "s", ":", "/", "/", "d", "o", "i", ".", "o", "r", "g", "/">>)
  THEN p + 16
  ELSE IF LitAt(t, p, <<"h", "t", "t", "p", ":", "/", "/", "d", "o", "i", ".", "o", "r", "g", "/">>)
  THEN p + 15
  ELSE -1

\* _DOI_RE at p: the start of group 1 (\S+), or -1
DoiGroup(t, p) ==
  LET g == DoiPrefixEnd(t, p)
  IN IF g # -1 /\ g < Len(t) /\ At(t, g) \notin SpaceChars THEN g ELSE -1

\* _DOI_RE at p: the end offset of the match, or -1
DoiEnd(t, p) == IF DoiGroup(t, p) = -1 THEN -1 ELSE NonSpaceEnd(t, DoiGroup(t, p))

\* \d{4}[a-z]? at p: the end offset, or -1
YearEnd(t, p) ==
  IF \A k \in 0..3 : At(t, p + k) \in DigitChars
  THEN IF At(t, p + 4) \in LowerChars THEN p + 5 ELSE p + 4
  ELSE -1

\* _YEAR_PAREN_RE at p, _YEAR_PLAIN_RE at p: the end offset of the match, or -1
YearParenEnd(t, p) == IF At(t, p) = "(" THEN ClosedBy(t, YearEnd(t, p + 1), ")") ELSE -1
YearPlainEnd(t, p) == ClosedBy(t, YearEnd(t, p), ".")

\* the characters of a page range ([\d\-] of the patterns; the en dash of the
\* patterns is outside the alphabet of the model)
PageChars == DigitChars \cup {"-"}

\* \s*[,:]\s*([\d\-]+) at q: <<start of the pages, end of the pages>>, or
\* <<-1, -1>>
PagesAt(t, q) ==
  LET b == SkipWhile(t, q, SpaceChars)
      c == SkipWhile(t, b + 1, SpaceChars)
  IN IF q # -1 /\ At(t, b) \in {",", ":"} /\ SkipWhile(t, c, PageChars) > c
     THEN <<c, SkipWhile(t, c, PageChars)>> ELSE <<-1, -1>>

\* (\d+)\s*\((\d+)\) at p: the offsets [d1, i1, d2] with volume = t[p:d1] and
\* issue = t[i1:d2], close the offset after ")", or close = -1
IssueAt(t, p) ==
  LET d1 == SkipWhile(t, p, DigitChars)
      a == SkipWhile(t, d1, SpaceChars)
      d2 == SkipWhile(t, a + 1, DigitChars)
  IN IF d1 > p /\ At(t, a) = "(" /\ d2 > a + 1 /\ At(t, d2) = ")"
     THEN [d1 |-> d1, i1 |-> a + 1, d2 |-> d2, close |-> d2 + 1]
     ELSE [d1 |-> -1, i1 |-> -1, d2 |-> -1, close |-> -1]

\* _VOL_ISSUE_PAGES_RE at p, _VOL_PAGES_RE at p: the end offset of the match, or -1
VolIssuePagesEnd(t, p) == PagesAt(t, IssueAt(t, p).close)[2]
VolPagesEnd(t, p) ==
  IF SkipWhile(t, p, DigitChars) > p THEN PagesAt(t, SkipWhile(t, p, DigitChars))[2] ELSE -1

\* The extracted fields: a function from the names of the fields that were
\* found to their texts.
NoFields == [k \in {} |-> <<>>]
Put(fields, k, v) == [x \in (DOMAIN fields) \cup {k} |-> IF x = k THEN v ELSE fields[x]]

\* "Title and journal": the split of pre_vol at p, the first period that
\* follows a lower-case letter, "?" or "!" and precedes white space (-1 for
\* none), else at the last comma c (-1 for none)
TitleJournal(fields, pre_vol, p, c) ==
  IF p # -1
  THEN Put(Put(fields, "title", RStrip(Strip(Slice(pre_vol, 0, p)), {"."})),
           "journal",
           RStrip(Strip(Slice(pre_vol, SkipWhile(pre_vol, p + 1, SpaceChars), Len(pre_vol))),
                  {",", ".", " "}))
  ELSE IF c # -1 /\ Len(Strip(Slice(pre_vol, c + 1, Len(pre_vol)))) > 2
  THEN Put(Put(fields, "title", RStrip(Strip(Slice(pre_vol, 0, c)), {"."})),
           "journal", RStrip(Strip(Slice(pre_vol, c + 1, Len(pre_vol))), {",", ".", " "}))
  ELSE Put(fields, "title", RStrip(Strip(pre_vol), {"."}))

\* parse_reference from "if pre_vol:" on
ParseTitle(fields, pre_vol) ==
  IF pre_vol = <<>> THEN fields
  ELSE TitleJournal(fields, pre_vol,
         FirstMatch([p \in 0..(Len(pre_vol) - 1) |->
                       IF /\ At(pre_vol, p) = "."
                          /\ At(pre_vol, p - 1) \in LowerChars \cup {"?", "!"}
                          /\ At(pre_vol, p + 1) \in SpaceChars
                       THEN p + 1 ELSE -1], Len(pre_vol)),
         RFind(pre_vol, <<",">>))

\* "Volume, issue, pages": vim and vp are the offsets of the matches of the two
\* patterns in after_year, -1 for none
ParseVolume(fields, after_year, vim, vp) ==
  IF vim # -1
  THEN ParseTitle(
         Put(Put(Put(fields, "volume", Slice(after_year, vim, IssueAt(after_year, vim).d1)),
                 "issue", Slice(after_year, IssueAt(after_year, vim).i1,
                                IssueAt(after_year, vim).d2)),
             "pages", Slice(after_year, PagesAt(after_year, IssueAt(after_year, vim).close)[1],
                            VolIssuePagesEnd(after_year, vim))),
         RStrip(Strip(Slice(after_year, 0, vim)), {",", ".", " "}))
  ELSE IF vp # -1
  THEN ParseTitle(
         Put(Put(fields, "volume",
                 Slice(after_year, vp, SkipWhile(after_year, vp, DigitChars))),
             "pages",
             Slice(after_year, PagesAt(after_year, SkipWhile(after_year, vp, DigitChars))[1],
                   VolPagesEnd(after_year, vp))),
         RStrip(Strip(Slice(after_year, 0, vp)), {",", ".", " "}))
  ELSE ParseTitle(fields, after_year)

\* "Authors (text before the year)", then the search for volume and pages
ParseAuthors(fields, before_year, after_year) ==
  ParseVolume(IF before_year # <<>> THEN Put(fields, "authors", Strip(before_year)) ELSE fields,
              after_year,
              FirstMatch([p \in 0..(Len(after_year) - 1) |-> VolIssuePagesEnd(after_year, p)],
                         Len(after_year)),
              FirstMatch([p \in 0..(Len(after_year) - 1) |-> VolPagesEnd(after_year, p)],
                         Len(after_year)))

\* "Year": yp and yq are the offsets of the matches of _YEAR_PAREN_RE and
\* _YEAR_PLAIN_RE in remaining, -1 for none
ParseYear(fields, remaining, yp, yq) ==
  IF yp # -1
  THEN ParseAuthors(
         Put(fields, "year", Slice(remaining, yp + 1, YearParenEnd(remaining, yp) - 1)),
         RStrip(Strip(Slice(remaining, 0, yp)), {".", ","}),
         Strip(LStrip(Strip(Slice(remaining, YearParenEnd(remaining, yp), Len(remaining))),
                      {".", ","})))
  ELSE IF yq # -1
  THEN ParseAuthors(
         Put(fields, "year", Slice(remaining, yq, YearPlainEnd(remaining, yq) - 1)),
         RStrip(Strip(Slice(remaining, 0, yq)), {".", ","}),
         Strip(Slice(remaining, YearPlainEnd(remaining, yq), Len(remaining))))
  ELSE ParseAuthors(fields, remaining, <<>>)

\* parse_reference after the DOI step
ParseAfterDoi(fields, remaining) ==
  ParseYear(fields, remaining,
            FirstMatch([p \in 0..(Len(remaining) - 1) |-> YearParenEnd(remaining, p)],
                       Len(remaining)),
            FirstMatch([p \in 0..(Len(remaining) - 1) |-> YearPlainEnd(remaining, p)],
                       Len(remaining)))

\* "DOI": dp is the offset of the match of _DOI_RE in remaining, -1 for none
ParseDoi(remaining, dp) ==
  IF dp # -1
  THEN ParseAfterDoi(
         Put(NoFields, "doi",
             RStrip(Slice(remaining, DoiGroup(remaining, dp), DoiEnd(remaining, dp)), {"."})),
         RStrip(Strip(Slice(remaining, 0, dp)
                      \o Slice(remaining, DoiEnd(remaining, dp), Len(remaining))), {"."}))
  ELSE ParseAfterDoi(NoFields, remaining)

\* the fields parse_reference extracts from the line, before the confidence check
ExtractFields(remaining) ==
  ParseDoi(remaining,
           FirstMatch([p \in 0..(Len(remaining) - 1) |-> DoiEnd(remaining, p)], Len(remaining)))

\* mutant: one field less is required
LowConfidenceTwo(fields) == Cardinality(DOMAIN fields) < 2

\* "if len(fields) < 3: return None"
LowConfidence(fields) == Cardinality(DOMAIN fields) < 3

\* the result of parse_reference: ok = FALSE stands for None
Gated(fields) ==
  IF LowConfidence(fields) THEN [ok |-> FALSE, fields |-> NoFields]
  ELSE [ok |-> TRUE, fields |-> fields]

\* parse_reference
parse_reference(text) == Gated(ExtractFields(Strip(StripNumberPrefix(Strip(text)))))

----------------------------------------------------------------------------
(* The reference formatter (references.py).                                 *)

\* str.replace(old, new)
RECURSIVE ReplaceAll(_, _, _)
ReplaceAll(t, old, new) ==
  IF Find(t, old) = -1 THEN t
  ELSE Slice(t, 0, Find(t, old)) \o new
       \o ReplaceAll(Slice(t, Find(t, old) + Len(old), Len(t)), old, new)

\* re.sub: t with the matches ms (<<start, end>> pairs in order) replaced by rep,
\* from offset pos on
RECURSIVE SubMatches(_, _, _, _)
SubMatches(t, ms, rep, pos) ==
  IF ms = <<>> THEN Slice(t, pos, Len(t))
  ELSE Slice(t, pos, ms[1][1]) \o rep \o SubMatches(t, Tail(ms), rep, ms[1][2])

\* a\s*b at p: the end offset of the match, or -1
PairEnd(t, p, a, b) ==
  IF At(t, p) = a THEN ClosedBy(t, SkipWhile(t, p + 1, SpaceChars), b) ELSE -1

\* re.sub(a\s*b, rep, t)
SubPair(t, a, b, rep) ==
  SubMatches(t, Scan([p \in 0..(Len(t) - 1) |-> PairEnd(t, p, a, b)], Len(t), 0), rep, 0)

\* re.sub(r'\s{2,}', ' ', t)
CollapseSpaces(t) ==
  SubMatches(t,
             Scan([p \in 0..(Len(t) - 1) |->
                     IF At(t, p) \in SpaceChars /\ At(t, p + 1) \in SpaceChars
                     THEN SkipWhile(t, p, SpaceChars) ELSE -1], Len(t), 0),
             <<" ">>, 0)

\* the keys of replacements, in the order of the dict
Placeholders ==
  <<"num", "authors", "year", "title", "journal", "volume", "issue", "pages", "doi">>

\* "{" + key + "}"
Braced(key) ==
  CASE key = "num" -> <<"{", "n", "u", "m", "}">>
    [] key = "authors" -> <<"{", "a", "u", "t", "h", "o", "r", "s", "}">>
    [] key = "year" -> <<"{", "y", "e", "a", "r", "}">>
    [] key = "title" -> <<"{", "t", "i", "t", "l", "e", "}">>
    [] key = "journal" -> <<"{", "j", "o", "u", "r", "n", "a", "l", "}">>
    [] key = "volume" -> <<"{", "v", "o", "l", "u", "m", "e", "}">>
    [] key = "issue" -> <<"{", "i", "s", "s", "u", "e", "}">>
    [] key = "pages" -> <<"{", "p", "a", "g", "e", "s", "}">>
    [] key = "doi" -> <<"{", "d", "o", "i", "}">>

\* replacements[key]
Replacement(fields, number, key) ==
  IF key = "num" THEN IntToStr(number)
  ELSE IF key \in DOMAIN fields THEN fields[key] ELSE <<>>

\* the loop over replacements.items(), from the k-th key on
RECURSIVE Substitute(_, _, _, _)
Substitute(result, fields, number, k) ==
  IF k > Len(Placeholders) THEN result
  ELSE Substitute(ReplaceAll(result, Braced(Placeholders[k]),
                             Replacement(fields, number, Placeholders[k])),
                  fields, number, k + 1)

\* format_reference
format_reference(fields, template, number) ==
  Strip(RStrip(Strip(
    CollapseSpaces(
      SubPair(SubPair(SubPair(ReplaceAll(Substitute(template, fields, number, 1),
                                         <<"(", ")">>, <<>>),
                              ",", ",", <<",">>),
                      ".", ".", <<".">>),
              ",", ".", <<".">>))), {","}))

----------------------------------------------------------------------------
(* apply_references (references.py).                                        *)

\* docx.shared.Pt and docx.shared.Inches, in EMU; the argument of Inches is in
\* tenths of an inch
Pt(points) == points * 12700
Inches(tenths) == (tenths * 914400) \div 10

\* _replace_paragraph_text
replace_paragraph_text(para, new_text) ==
  IF para.runs = <<>>
  THEN [para EXCEPT !.runs = <<MkRun(new_text, 0, FALSE)>>]
  ELSE [para EXCEPT !.runs = [i \in 1..Len(para.runs) |->
                                SetRunText(para.runs[i], IF i = 1 THEN new_text ELSE <<>>)]]

\* _apply_paragraph_formatting
apply_paragraph_formatting(para, hanging_indent, font_size_pt) ==
  [para EXCEPT !.left_indent = <<Inches(hanging_indent)>>,
               !.first_line_indent = <<-Inches(hanging_indent)>>,
               !.runs = [i \in 1..Len(para.runs) |->
                           [para.runs[i] EXCEPT !.font.size = <<font_size_pt>>]]]

\* the warning of apply_references for an entry that could not be parsed
Unparsed(entry, text) ==
  [kind |-> "unparsed", entry |-> entry,
   lit |-> Slice(text, 0, 80) \o (IF Len(text) > 80 THEN <<".", ".", ".">> ELSE <<>>)]

\* the new text of a parsed entry: new_text is format_reference's result
Numbered(config, number, new_text) ==
  IF config.numbering = "numbered" /\ ~Contains(config.format, <<"{", "n", "u", "m", "}">>)
  THEN IntToStr(number) \o <<".", " ">> \o new_text
  ELSE new_text

\* the body of the loop of apply_references for a non-blank paragraph idx with
\* stripped text text; parsed is the result of parse_reference(text)
RefEntry(g, idx, config, text, parsed) ==
  IF ~parsed.ok
  THEN [g EXCEPT !.warnings = Append(@, Unparsed(g.references_found + 1, text)),
                 !.doc[idx + 1] = apply_paragraph_formatting(@, config.hanging_indent,
                                                             Pt(config.font_size)),
                 !.references_found = @ + 1,
                 !.number = @ + 1]
  ELSE [g EXCEPT !.doc[idx + 1] =
                    apply_paragraph_formatting(
                      replace_paragraph_text(@, Numbered(config, g.number,
                                                         format_reference(parsed.fields,
                                                                          config.format,
                                                                          g.number))),
                      config.hanging_indent, Pt(config.font_size)),
                 !.references_found = @ + 1,
                 !.references_reformatted = @ + 1,
                 !.number = @ + 1]

\* mutant: blank lines are entries too
RefStepBlankToo(g, idx, config, text) ==
  RefEntry(g, idx, config, text, parse_reference(text))

\* one iteration of the loop: blank lines are skipped
RefStep(g, idx, config, text) ==
  IF text = <<>> THEN g ELSE RefEntry(g, idx, config, text, parse_reference(text))

\* for idx in range(entry_start, ref_end)
RECURSIVE RefLoop(_, _, _, _)
RefLoop(g, idx, ref_end, config) ==
  IF idx >= ref_end THEN g
  ELSE RefLoop(RefStep(g, idx, config, Strip(ParaText(g.doc[idx + 1]))), idx + 1, ref_end, config)

\* mutant: without a section the whole document is taken for the reference list
ApplyToWholeDocument(d, config, section_range) ==
  RefLoop([doc |-> d, warnings |-> <<>>, references_found |-> 0,
           references_reformatted |-> 0, number |-> 1],
          IF section_range = <<>> THEN 0 ELSE section_range[1] + 1,
          IF section_range = <<>> THEN Len(d) ELSE section_range[2], config)

\* apply_references once the section is searched: section_range is <<>> for None
ApplyToSection(d, config, section_range) ==
  IF section_range = <<>>
  THEN [doc |-> d, warnings |-> <<[kind |-> "no_section", entry |-> 0, lit |-> <<>>]>>,
        references_found |-> 0, references_reformatted |-> 0, number |-> 1]
  ELSE RefLoop([doc |-> d, warnings |-> <<>>, references_found |-> 0,
                references_reformatted |-> 0, number |-> 1],
               section_range[1] + 1, section_range[2], config)

\* apply_references
apply_references(d, config) == ApplyToSection(d, config, find_references_section(d))

----------------------------------------------------------------------------
(* RefSpec: apply_references on documents of at most MaxRefParas paragraphs *)
(* drawn from a pool of headings and reference lines.                       *)

MaxRefParas == 3

RefHeading ==
  MkPara("Heading 1", <<
     MkRun(<<"R", "e", "f", "e", "r", "e", "n", "c", "e", "s">>, 1, FALSE)>>)

RefHeadingNumbered ==
  MkPara("Heading 2", <<
     MkRun(<<"2", ".", " ", "B", "i", "b", "l", "i", "o", "g", "r", "a", "p", "h", "y">>, 1, FALSE)>>)

RefHeadingDotted ==
  MkPara("Heading 1", <<
     MkRun(<<"1", ".", "2", " ", "R", "e", "f", "e", "r", "e", "n", "c", "e", "s">>, 1, FALSE)>>)

OtherHeading ==
  MkPara("Heading 1", <<
     MkRun(<<"M", "e", "t", "h", "o", "d", "s">>, 1, FALSE)>>)

LineYearOnly ==
  MkPara("Normal", <<
     MkRun(<<"2", "0", "2", "0", ".">>, 1, FALSE)>>)

LineTwoFields ==
  MkPara("Normal", <<
     MkRun(<<"S", "m", "i", "t", "h", " ", "(", "2", "0", "2", "0", ")", ".">>, 1, FALSE)>>)

LineThreeFields ==
  MkPara("Normal", <<
     MkRun(<<"S", "m", "i", "t", "h", ",", " ", "J", ".", " ", "(", "2", "0">>, 1, FALSE),
     MkRun(<<"2", "0", ")", ".", " ", "A", " ", "s", "t", "u", "d", "y", ".">>, 2, FALSE)>>)

LineFull ==
  MkPara("Normal", <<
     MkRun(<<"1", ".", " ", "S", "m", "i", "t", "h", ",", " ", "J", ".", " ", "(", "2", "0",
           "2", "0", ")", ".", " ", "A", " ", "s", "t", "u", "d", "y", " ", "o", "f", " ", "t",
           "h", "i", "n", "g", "s", ".", " ">>, 1, FALSE),
     MkRun(<<"J", ".", " ", "E", "x", "a", "m", "p", "l", "e", "s", ".", " ", "1", "2", "(",
           "3", ")", ",", " ", "4", "5", "-", "6", "7", ".", " ", "d", "o", "i", ":", "1", "0",
           ".", "1", "/", "x", "y", "z">>, 2, FALSE)>>)

LineBlank ==
  MkPara("Normal", <<
     MkRun(<<" ", " ">>, 1, FALSE)>>)

LinePrefixedYear ==
  MkPara("Normal", <<
     MkRun(<<"[", "3", "]", " ", "1", "9", "9", "9", "a", ".">>, 1, FALSE)>>)

RefPool == {RefHeading, RefHeadingNumbered, RefHeadingDotted, OtherHeading, LineYearOnly, LineTwoFields,
            LineThreeFields, LineFull, LineBlank, LinePrefixedYear}

TemplateApa ==
  <<"{", "a", "u", "t", "h", "o", "r", "s", "}", " ", "(", "{", "y", "e", "a", "r", "}", ")",
  ".", " ", "{", "t", "i", "t", "l", "e", "}", ".", " ", "{", "j", "o", "u", "r", "n", "a",
  "l", "}", ",", " ", "{", "v", "o", "l", "u", "m", "e", "}", "(", "{", "i", "s", "s", "u",
  "e", "}", ")", ",", " ", "{", "p", "a", "g", "e", "s", "}", ".">>

TemplateNumbered ==
  <<"[", "{", "n", "u", "m", "}", "]", " ", "{", "a", "u", "t", "h", "o", "r", "s", "}", ".",
  " ", "{", "t", "i", "t", "l", "e", "}", ".", " ", "{", "y", "e", "a", "r", "}", ".">>

RefConfigs == [numbering : {"numbered", "unnumbered"},
               format : {TemplateApa, TemplateNumbered},
               hanging_indent : {5},
               font_size : {10}]

RefInit ==
  /\ pc = "ref_call"
  /\ \E n \in 1..MaxRefParas : doc \in [1..n -> RefPool]
  /\ doc0 = doc
  /\ inp \in [config : RefConfigs]
  /\ out = [path |-> None]

ApplyReferences ==
  /\ pc = "ref_call"
  /\ \E r \in {apply_references(doc, inp.config)} :
        /\ doc' = r.doc
        /\ out' = [warnings |-> r.warnings, references_found |-> r.references_found,
                   references_reformatted |-> r.references_reformatted]
  /\ doc0' = doc
  /\ pc' = "ref_done"
  /\ UNCHANGED inp

RefNext == ApplyReferences

RefSpec == RefInit /\ [][RefNext]_vars

RefRan == pc = "ref_done"

\* the 1-based indices of the non-blank paragraphs of the references section of
\* the document apply_references was given
RefEntries ==
  LET section_range == find_references_section(doc0)
  IN IF section_range = <<>> THEN {}
     ELSE {i \in (section_range[1] + 2)..section_range[2] : Strip(ParaText(doc0[i])) # <<>>}

\* the number of fields extracted from the line of paragraph i
FieldCount(i) ==
  Cardinality(DOMAIN ExtractFields(Strip(StripNumberPrefix(Strip(ParaText(doc0[i]))))))

\* C10: a reference line from which fewer than 3 fields are extracted is
\* reported unparsed by parse_reference; apply_references leaves the text of
\* its paragraph unchanged, emits a warning for it, counts only the other
\* entries in references_reformatted, and still gives the paragraph the hanging
\* indent and every run of it the font size.
C10_ConfidenceGate ==
  RefRan =>
    /\ \A i \in RefEntries :
         FieldCount(i) < 3 =>
           /\ ~parse_reference(Strip(ParaText(doc0[i]))).ok
           /\ [k \in 1..Len(doc[i].runs) |-> doc[i].runs[k].kids]
                = [k \in 1..Len(doc0[i].runs) |-> doc0[i].runs[k].kids]
           /\ \E w \in 1..Len(out.warnings) :
                /\ out.warnings[w].kind = "unparsed"
                /\ out.warnings[w].entry = Cardinality({j \in RefEntries : j <= i})
                /\ out.warnings[w].lit = Strip(ParaText(doc0[i]))
           /\ doc[i].left_indent = <<Inches(inp.config.hanging_indent)>>
           /\ doc[i].first_line_indent = <<-Inches(inp.config.hanging_indent)>>
           /\ \A k \in 1..Len(doc[i].runs) :
                doc[i].runs[k].font.size = <<Pt(inp.config.font_size)>>
    /\ out.references_reformatted = Cardinality({i \in RefEntries : FieldCount(i) >= 3})

\* apply_references has run on a references section whose only line is a year
C10_Witness ==
  /\ RefRan
  /\ doc0 = <<RefHeading, LineYearOnly>>
  /\ ParaText(doc[2]) = <<"2", "0", "2", "0", ".">>
  /\ Len(out.warnings) = 1
  /\ out.references_found = 1
  /\ out.references_reformatted = 0
  /\ doc[2].left_indent = <<457200>>
  /\ doc[2].first_line_indent = <<-457200>>
  /\ doc[2].runs[1].font.size = <<127000>>

----------------------------------------------------------------------------
(* Claims about the reference parser and formatter.                         *)

\* the rendering the example of C11 expects
C11_Expected ==
  <<"S", "m", "i", "t", "h", ",", " ", "J", ".", " ", "(", "2", "0", "2", "0", ")", ".", " ",
  "A", " ", "s", "t", "u", "d", "y", " ", "o", "f", " ", "t", "h", "i", "n", "g", "s", ".",
  " ", "J", ".", " ", "E", "x", "a", "m", "p", "l", "e", "s", ".", " ", "1", "2", "(", "3",
  ")", ",", " ", "4", "5", "-", "6", "7", ".">>

\* C11: the line "1. Smith, J. (2020). A study of things. J. Examples. 12(3),
\* 45-67. doi:10.1/xyz", parsed and rendered through the template "{authors}
\* ({year}). {title}. {journal}, {volume}({issue}), {pages}." without numbering,
\* becomes exactly "Smith, J. (2020). A study of things. J. Examples. 12(3),
\* 45-67.".
C11_ExampleRendered ==
  (RefRan /\ inp.config.format = TemplateApa /\ inp.config.numbering = "unnumbered") =>
     \A i \in RefEntries : doc0[i] = LineFull => ParaText(doc[i]) = C11_Expected

----------------------------------------------------------------------------
(* DetectSpec: detect_input_style on documents of at most MaxDetectParas    *)
(* paragraphs drawn from a pool with every kind of marker.                  *)

MaxDetectParas == 6

DetAuthorYear == MkPara("Normal", <<MkRun(<<"(", "A", "b", ",", " ", "2", "0", "2", "0", ")">>, 1, FALSE)>>)
DetBracketTwice == MkPara("Normal", <<MkRun(<<"[", "1", "]", " ", "[", "2", "]">>, 1, FALSE)>>)
DetSuperscript ==
  MkPara("Normal", <<MkRun(<<"x">>, 1, FALSE), MkRun(<<"1">>, 1, TRUE), MkRun(<<"2">>, 1, TRUE)>>)
DetMixed ==
  MkPara("Normal", <<MkRun(<<"(", "A", "b", ",", " ", "2", "0", "2", "0", ")", " ", "[", "1", "]">>, 1, FALSE)>>)
DetHeading == MkPara("Heading 1", <<MkRun(<<"[", "1", "]">>, 1, FALSE)>>)

DetectPool == {DetAuthorYear, DetBracketTwice, DetSuperscript, DetMixed, DetHeading}

DetectInit ==
  /\ pc = "detect_call"
  /\ \E n \in 1..MaxDetectParas : doc \in [1..n -> DetectPool]
  /\ doc0 = doc
  /\ inp = [config |-> None]
  /\ out = [path |-> None]

\* input_style = detect_input_style(doc)
DetectInputStyle ==
  /\ pc = "detect_call"
  /\ out' = [input_style |-> detect_input_style(doc)]
  /\ pc' = "detect_done"
  /\ UNCHANGED <<doc, doc0, inp>>

DetectNext == DetectInputStyle

DetectSpec == DetectInit /\ [][DetectNext]_vars

\* paragraph para holds at least one marker of the k-th style
Marked(para, k) ==
  CASE k = 1 -> \E p \in 0..Len(ParaText(para)) :
                  AuthorYearEnd(ParaText(para), p) # -1 \/ MultiEnd(ParaText(para), p) # -1
    [] k = 2 -> \E p \in 0..Len(ParaText(para)) : NumericBracketEnd(ParaText(para), p) # -1
    [] k = 3 -> \E r \in 1..Len(para.runs) :
                  /\ para.runs[r].font.superscript
                  /\ NumListEnd(Strip(RunText(para.runs[r])), 0) = Len(Strip(RunText(para.runs[r])))

\* the number of sampled paragraphs that hold a marker of the k-th style
Tally(k) == Cardinality({i \in SampledParas(doc, 20) : Marked(doc[i], k)})

\* five paragraphs with bracket citations and one with an author-year citation
DetectExample ==
  <<DetBracketTwice, DetBracketTwice, DetAuthorYear, DetBracketTwice, DetBracketTwice,
    DetBracketTwice>>

\* C12: detect_input_style returns the style with the highest number of
\* sampled paragraphs holding a marker of it (one count per paragraph and
\* style), the first of author_year, numeric_bracket, superscript among equal
\* tallies, author_year when every tally is zero; five bracket paragraphs and
\* one author-year paragraph give numeric_bracket.
C12_HighestTallyWins ==
  pc = "detect_done" =>
    LET tally == [j \in 1..3 |-> Tally(j)]
    IN /\ \E k \in 1..3 :
            /\ out.input_style = STYLE_NAMES[k]
            /\ \A j \in 1..3 : tally[j] <= tally[k]
            /\ \A j \in 1..(k - 1) : tally[j] < tally[k]
       /\ (\A j \in 1..3 : tally[j] = 0) => out.input_style = "author_year"
       /\ doc = DetectExample => out.input_style = "numeric_bracket"

\* the detector has run on the example, and on a tie won by priority
C12_Witness ==
  /\ pc = "detect_done"
  /\ doc = DetectExample
  /\ Tally(1) = 1 /\ Tally(2) = 5 /\ Tally(3) = 0
  /\ out.input_style = "numeric_bracket"

----------------------------------------------------------------------------
(* run_pipeline (pipeline.py).  A formatter step is abstracted to its       *)
(* outcome: it raises, or it returns its warnings and its stats.  doc is    *)
(* the list of the steps called on the loaded document, doc0 what was saved.*)

\* the names of steps, in the order of the list
STEPS ==
  <<"layout", "fonts", "title_page", "sections", "citations", "references", "headings",
    "tables", "figures">>

\* stats.model_fields
ModelFields ==
  {"citations_found", "citations_reformatted", "references_found", "references_reformatted",
   "tables_found", "figures_found"}

\* the keys of the "stats" dict the formatter of a step returns
StatKeys(step_name) ==
  CASE step_name = "layout" -> {"page_size", "margins", "line_spacing", "columns"}
    [] step_name = "fonts" -> {"font_family", "font_size_pt", "paragraphs_modified", "runs_modified"}
    [] step_name = "citations" -> {"citations_found", "citations_reformatted"}
    [] step_name = "references" -> {"references_found", "references_reformatted"}
    [] step_name = "headings" -> {"headings_formatted", "heading_numbering"}
    [] step_name = "tables" -> {"tables_found"}
    [] step_name = "figures" -> {"figures_found"}
    [] OTHER -> {}

\* result = step_fn() for a step that returns: count is the value of its stats
StepResult(step_name, warned, count) ==
  [warnings |-> IF step_name \in warned THEN <<[step |-> step_name, kind |-> "own"]>> ELSE <<>>,
   stats |-> [k \in StatKeys(step_name) |-> count]]

\* the "Merge stats" loop
MergeStats(stats, result) ==
  [key \in ModelFields |->
     IF key \in DOMAIN result.stats THEN stats[key] + result.stats[key] ELSE stats[key]]

\* the state of run_pipeline before the first try
PipeStart ==
  [next |-> 1, warnings |-> <<>>, errors |-> <<>>, stats |-> [key \in ModelFields |-> 0],
   result |-> Unset]

\* the FormattingResult of the outer except
Failed(o, error) ==
  [o EXCEPT !.result = <<[success |-> FALSE, warnings |-> o.warnings, errors |-> <<error>>,
                          stats |-> o.stats, output_path |-> None]>>]

\* the position after the iteration of step i
AfterStep(i) == IF i = Len(STEPS) THEN "save" ELSE "step"

MaxRaises == 2

PipeInit ==
  /\ pc = "load"
  /\ doc = <<>>
  /\ doc0 = Unset
  /\ inp \in [raises : {S \in SUBSET (1..Len(STEPS)) : Cardinality(S) <= MaxRaises},
              warned : {{}, {"citations", "references"}, {STEPS[i] : i \in 1..Len(STEPS)}},
              count : 1..2,
              load_raises : BOOLEAN,
              save_raises : BOOLEAN]
  /\ out = PipeStart

\* convert_doc_to_docx, load_journal_config, Document(docx_path)
LoadDocument ==
  /\ pc = "load"
  /\ IF inp.load_raises
     THEN /\ out' = Failed(out, "load")
          /\ pc' = "done"
     ELSE /\ out' = out
          /\ pc' = "step"
  /\ UNCHANGED <<doc, doc0, inp>>

\* one iteration of the loop over steps, step_fn() returning
StepReturns ==
  /\ pc = "step"
  /\ out.next \notin inp.raises
  /\ \E result \in {StepResult(STEPS[out.next], inp.warned, inp.count)} :
        out' = [out EXCEPT !.warnings = @ \o result.warnings,
                           !.stats = MergeStats(@, result),
                           !.next = @ + 1]
  /\ doc' = Append(doc, STEPS[out.next])
  /\ pc' = AfterStep(out.next)
  /\ UNCHANGED <<doc0, inp>>

\* mutant: the exception of a step reaches the outer except
StepRaisesAborts ==
  /\ pc = "step"
  /\ out.next \in inp.raises
  /\ out' = Failed(out, STEPS[out.next])
  /\ doc' = Append(doc, STEPS[out.next])
  /\ pc' = "done"
  /\ UNCHANGED <<doc0, inp>>

\* one iteration of the loop over steps, step_fn() raising
StepRaises ==
  /\ pc = "step"
  /\ out.next \in inp.raises
  /\ out' = [out EXCEPT !.warnings = Append(@, [step |-> STEPS[out.next], kind |-> "failed"]),
                        !.next = @ + 1]
  /\ doc' = Append(doc, STEPS[out.next])
  /\ pc' = AfterStep(out.next)
  /\ UNCHANGED <<doc0, inp>>

\* doc.save(output_path) and the return that follows it
SaveOutput ==
  /\ pc = "save"
  /\ IF inp.save_raises
     THEN /\ out' = Failed(out, "save")
          /\ doc0' = doc0
     ELSE /\ out' = [out EXCEPT !.result = <<[success |-> TRUE, warnings |-> out.warnings,
                                              errors |-> out.errors, stats |-> out.stats,
                                              output_path |-> "output_path"]>>]
          /\ doc0' = <<doc>>
  /\ pc' = "done"
  /\ UNCHANGED <<doc, inp>>

PipeNext == LoadDocument \/ StepReturns \/ StepRaises \/ SaveOutput

PipeSpec == PipeInit /\ [][PipeNext]_vars

PipeDone == pc = "done" /\ ~inp.load_raises

\* the warnings the steps 1..i leave: the failure warning of a step that raised,
\* the own warnings of a step that returned
RECURSIVE WarningsUpTo(_)
WarningsUpTo(i) ==
  IF i = 0 THEN <<>>
  ELSE WarningsUpTo(i - 1)
       \o (IF i \in inp.raises THEN <<[step |-> STEPS[i], kind |-> "failed"]>>
           ELSE IF STEPS[i] \in inp.warned THEN <<[step |-> STEPS[i], kind |-> "own"]>>
           ELSE <<>>)

\* the statistics of the steps that returned, merged
CompletedStats ==
  [key \in ModelFields |->
     inp.count * Cardinality({i \in (1..Len(STEPS)) \ inp.raises : key \in StatKeys(STEPS[i])})]

\* every step was called, in the order of the list, and left its warning
AllStepsRan ==
  /\ doc = STEPS
  /\ out.warnings = WarningsUpTo(Len(STEPS))
  /\ out.stats = CompletedStats

\* the document was saved and the result reports success
SavedWithSuccess ==
  /\ doc0 = <<doc>>
  /\ out.result = <<[success |-> TRUE, warnings |-> WarningsUpTo(Len(STEPS)), errors |-> <<>>,
                     stats |-> CompletedStats, output_path |-> "output_path"]>>

----------------------------------------------------------------------------
(* Claims about the sections of a document.                                 *)

\* C14: get_all_sections returns one section per heading paragraph, by
\* increasing start; every section has start < end, the end of a section is
\* the start of the next one, and the end of the last one is the number of
\* paragraphs.
C14_SectionsContiguous ==
  RefRan =>
    LET sections == get_all_sections(doc0)
        n == Len(sections)
    IN /\ n = Cardinality({i \in 1..Len(doc0) : get_heading_level(doc0[i]) # NoLevel})
       /\ \A k \in 1..n :
            /\ get_heading_level(doc0[sections[k].start + 1]) # NoLevel
            /\ sections[k].start < sections[k].end
            /\ k < n => /\ sections[k].start < sections[k + 1].start
                        /\ sections[k].end = sections[k + 1].start
            /\ k = n => sections[k].end = Len(doc0)

\* a document with two headings, the first section holding one line
C14_Witness ==
  /\ RefRan
  /\ doc0 = <<RefHeading, LineYearOnly, OtherHeading>>
  /\ Len(get_all_sections(doc0)) = 2
  /\ get_all_sections(doc0)[1].start = 0 /\ get_all_sections(doc0)[1].end = 2
  /\ get_all_sections(doc0)[2].start = 2 /\ get_all_sections(doc0)[2].end = 3

----------------------------------------------------------------------------
(* Concurrent requests (routes.py, file_service.py).  Each request r of     *)
(* ConcSpec uploads a file and has run_pipeline executed in an executor     *)
(* thread.  doc is the file system (a set of files), doc0[r] the Document   *)
(* that the thread of r holds, out[r] the response.  Of the formatter steps *)
(* the citation step is kept.                                               *)

MaxRequests == 2

Requests == 1..MaxRequests

\* get_upload_path: a uuid4 name, one per call, with the extension kept
get_upload_path(r, filename) == [dir |-> "uploads", name |-> <<"uuid", r>>, ext |-> filename.ext]

\* get_output_path: the name of the uploaded file with the suffix _formatted;
\* filename is the pair os.path.splitext gives
get_output_path(filename) ==
  [dir |-> "output", name |-> <<filename.name, "_formatted">>, ext |-> filename.ext]

\* load_journal_config(journal_id)
JournalConfig(journal_id) ==
  IF journal_id = "bracketed"
  THEN [type |-> "numeric_bracket", format |-> <<"[", NUM, "]">>, sort |-> "order_of_appearance"]
  ELSE [type |-> "superscript", format |-> <<NUM>>, sort |-> "order_of_appearance"]

\* open(path, "wb").write / doc.save(path): the file at path is replaced
WriteFile(files, path, content) ==
  {f \in files : f.path # path} \cup {[path |-> path, content |-> content]}

\* the content of the file at path
ReadFile(files, path) == (CHOOSE f \in files : f.path = path).content

ConcInit ==
  /\ pc = [r \in Requests |-> "received"]
  /\ doc = {}
  /\ doc0 = [r \in Requests |-> Unset]
  /\ out = [r \in Requests |-> Unset]
  /\ inp \in [Requests -> [filename : [name : {"paper", "draft"}, ext : {".docx"}],
                           content : {<<ParaJones>>, <<ParaSameTwice, ParaJones>>},
                           journal_id : {"bracketed", "raised"}]]

\* upload_path = await save_upload(file)
SaveUpload(r) ==
  /\ pc[r] = "received"
  /\ doc' = WriteFile(doc, get_upload_path(r, inp[r].filename), inp[r].content)
  /\ pc' = [pc EXCEPT ![r] = "uploaded"]
  /\ UNCHANGED <<doc0, inp, out>>

\* run_pipeline in the executor thread, up to doc = Document(docx_path)
PipelineLoad(r) ==
  /\ pc[r] = "uploaded"
  /\ doc0' = [doc0 EXCEPT ![r] = <<ReadFile(doc, get_upload_path(r, inp[r].filename))>>]
  /\ pc' = [pc EXCEPT ![r] = "loaded"]
  /\ UNCHANGED <<doc, inp, out>>

\* run_pipeline in the executor thread, from the steps to doc.save(output_path)
PipelineSave(r) ==
  /\ pc[r] = "loaded"
  /\ \E res \in {apply_citations(doc0[r][1], JournalConfig(inp[r].journal_id))} :
        /\ doc0' = [doc0 EXCEPT ![r] = <<res.doc>>]
        /\ doc' = WriteFile(doc, get_output_path(inp[r].filename), res.doc)
        /\ out' = [out EXCEPT ![r] = <<[success |-> TRUE,
                                        citations_reformatted |-> res.citations_reformatted,
                                        output_path |-> get_output_path(inp[r].filename)]>>]
  /\ pc' = [pc EXCEPT ![r] = "saved"]
  /\ UNCHANGED inp

\* the response of format_manuscript and cleanup_files(upload_path)
Respond(r) ==
  /\ pc[r] = "saved"
  /\ doc' = {f \in doc : f.path # get_upload_path(r, inp[r].filename)}
  /\ pc' = [pc EXCEPT ![r] = "done"]
  /\ UNCHANGED <<doc0, inp, out>>

ConcNext ==
  \E r \in Requests : SaveUpload(r) \/ PipelineLoad(r) \/ PipelineSave(r) \/ Respond(r)

ConcSpec == ConcInit /\ [][ConcNext]_vars

\* what a run alone produces from the input of request r
OwnOutput(r) == apply_citations(inp[r].content, JournalConfig(inp[r].journal_id))

\* C15: when several formatting runs execute concurrently, under every
\* interleaving the result and the saved output document of each run are
\* determined by that run's own input document and config alone.
C15_RunsIndependent ==
  \A r \in Requests :
     pc[r] = "done" =>
       /\ out[r][1].citations_reformatted = OwnOutput(r).citations_reformatted
       /\ \E f \in doc : f.path = out[r][1].output_path /\ f.content = OwnOutput(r).doc

\* the same for runs whose uploads have different file names
C15_DistinctNamesIndependent ==
  (\A r, s \in Requests : r # s => inp[r].filename # inp[s].filename) => C15_RunsIndependent

\* no heading paragraph of the document apply_references was given has a text
\* of the reference-heading vocabulary
NoReferenceHeading ==
  ~\E i \in 1..Len(doc0) :
      /\ get_heading_level(doc0[i]) # NoLevel
      /\ Lower(strip_heading_number(ParaText(doc0[i]))) \in {Lower(h) : h \in REF_HEADINGS}

\* C16: when no heading paragraph matches the reference-heading vocabulary,
\* apply_references returns exactly one warning, reports references_found =
\* references_reformatted = 0 and changes no paragraph.
C16_MissingSectionSkipped ==
  (RefRan /\ NoReferenceHeading) =>
     /\ Len(out.warnings) = 1
     /\ out.warnings[1].kind = "no_section"
     /\ out.references_found = 0
     /\ out.references_reformatted = 0
     /\ doc = doc0

\* a document with a heading outside the vocabulary and a reference line
C16_Witness ==
  /\ RefRan
  /\ doc0 = <<OtherHeading, LineFull>>
  /\ NoReferenceHeading
  /\ doc = doc0
  /\ Len(out.warnings) = 1

----------------------------------------------------------------------------
(* The runs a successful replace_in_runs leaves around the match.          *)

\* the texts of the first and last overlapped run outside the match
BeforeText == Slice(Text0, RunStart(Runs0, FirstHit), MatchStart)
AfterText == Slice(Text0, MatchEnd, RunEnd(Runs0, LastHit))

\* the formatting of run r with superscript forced on iff requested
Forced(r) == [r.font EXCEPT !.superscript = IF inp.superscript THEN TRUE ELSE @]

PlainRuns == \A i \in 1..Len(Runs0) : \A k \in 1..Len(Runs0[i].kids) : ~Runs0[i].kids[k].el

\* C17: when the matched span lies inside one run, replace_in_runs leaves, in
\* this order, the original run holding only the text before the match, a new
\* run holding new, and (only if the text after the match is non-empty) a new
\* run holding the after-text; the before run and the after run carry the
\* original run's formatting, superscript included, and the replacement run
\* carries it with superscript forced on iff requested.
C17_SingleRunSplit ==
  (SpliceDone /\ out.ret = TRUE /\ FirstHit = LastHit) =>
     /\ Grown = IF AfterText = <<>> THEN 1 ELSE 2
     /\ RunText(Runs1[FirstHit]) = BeforeText
     /\ Runs1[FirstHit].font = Runs0[FirstHit].font
     /\ RunText(Runs1[FirstHit + 1]) = inp.new
     /\ Runs1[FirstHit + 1].font = Forced(Runs0[FirstHit])
     /\ AfterText # <<>> =>
          /\ RunText(Runs1[FirstHit + 2]) = AfterText
          /\ Runs1[FirstHit + 2].font = Runs0[FirstHit].font

\* C17 as the code has it, on text without element characters: the after run
\* is a copy of the replacement run, superscript forced on included.
C17_AfterRunCopiesReplacement ==
  (SpliceDone /\ out.ret = TRUE /\ FirstHit = LastHit /\ PlainRuns) =>
     /\ Grown = IF AfterText = <<>> THEN 1 ELSE 2
     /\ RunText(Runs1[FirstHit]) = BeforeText
     /\ Runs1[FirstHit].font = Runs0[FirstHit].font
     /\ RunText(Runs1[FirstHit + 1]) = inp.new
     /\ Runs1[FirstHit + 1].font = Forced(Runs0[FirstHit])
     /\ AfterText # <<>> =>
          /\ RunText(Runs1[FirstHit + 2]) = AfterText
          /\ Runs1[FirstHit + 2].font = Forced(Runs0[FirstHit])

\* C18: when the matched span overlaps runs i..j with i < j, afterwards run i
\* holds only its text before the match, a new run holding new sits right
\* after run i with run i's formatting (superscript forced on iff requested),
\* every run strictly between i and j is still there with empty text, and run
\* j holds only its text after the match with its own formatting unchanged.
C18_MultiRunSplice ==
  (SpliceDone /\ out.ret = TRUE /\ FirstHit < LastHit) =>
     /\ Grown = 1
     /\ RunText(Runs1[FirstHit]) = BeforeText
     /\ RunText(Runs1[FirstHit + 1]) = inp.new
     /\ Runs1[FirstHit + 1].font = Forced(Runs0[FirstHit])
     /\ \A i \in (FirstHit + 1)..(LastHit - 1) :
          /\ RunText(Runs1[i + 1]) = <<>>
          /\ Runs1[i + 1].font = Runs0[i].font
     /\ RunText(Runs1[LastHit + 1]) = AfterText
     /\ Runs1[LastHit + 1].font = Runs0[LastHit].font

\* C18 where run i keeps no element character before the match
C18_PlainBeforeText ==
  (SpliceDone /\ out.ret = TRUE /\ FirstHit < LastHit) =>
     ((\A k \in 1..Len(BeforeText) : BeforeText[k] \notin ElementChars) => C18_MultiRunSplice)

----------------------------------------------------------------------------
(* Numbering in order of appearance and in alphabetical order.             *)

Pair(c) == <<c.author, c.year>>
PairsOf(cits) == {Pair(cits[i]) : i \in 1..Len(cits)}

\* every occurrence has the appearance number of its own pair, and the
\* identifiers in use are 1..K for K distinct pairs
AppearanceNumbered(cits, m) ==
  /\ \A i \in 1..Len(cits) : Identifier(m, cits[i]) = AppearanceNumber(cits, Pair(cits[i]))
  /\ {Identifier(m, cits[i]) : i \in 1..Len(cits)} = 1..Cardinality(PairsOf(cits))

\* C19: for author_year occurrences in extraction order and a numeric target,
\* build_citation_map gives the k-th distinct (author, year) pair, members of
\* groups counted, the identifier k, reuses it for every later occurrence of
\* the pair, and the identifiers of K distinct pairs are exactly 1..K.
C19_AppearanceOrderNumbering ==
  (CiteOnce /\ NumericTarget /\ out.input_style = "author_year") =>
     AppearanceNumbered(out.citations, build_citation_map(out.citations, inp.config.type))

\* C19 for documents whose citations are all single
C19_SinglesAppearanceNumbered ==
  (CiteOnce /\ NumericTarget /\ out.input_style = "author_year"
     /\ \A i \in 1..Len(out.citations) : ~out.citations[i].is_multi) =>
     AppearanceNumbered(out.citations, build_citation_map(out.citations, inp.config.type))

\* the rank of the pair ay among the distinct pairs of cits, sorted
\* case-insensitively by author, then by year
AlphaRank(cits, ay) == 1 + Cardinality({p \in PairsOf(cits) : AlphaLess(p, ay)})

\* the citations of a text in text order: <<start, end, is_multi>>, the single
\* citations inside a multi-citation left out
RECURSIVE ByStart(_)
ByStart(S) ==
  IF S = {} THEN <<>>
  ELSE LET x == CHOOSE x \in S : \A y \in S : x[1] <= y[1]
       IN <<x>> \o ByStart(S \ {x})

CitationSpans(text) ==
  LET mm == FindMulti(text)
      sm == FindAuthorYear(text)
      multi == {<<mm[k][1], mm[k][2], TRUE>> : k \in 1..Len(mm)}
      single == {<<sm[k][1], sm[k][2], FALSE>> : k \in 1..Len(sm)}
  IN ByStart(multi \cup {s \in single : ~\E m \in multi : m[1] <= s[1] /\ s[2] <= m[2]})

\* the ranks of the members of the multi-citation full_match, as digits
MemberRanks(full_match, cits) ==
  LET inner == Slice(full_match, 1, Len(full_match) - 1)
      ims == FindIndividual(inner)
  IN [k \in 1..Len(ims) |->
        LET g == Groups(inner, ims[k][1], CiteCore(inner, ims[k][1], FALSE))
        IN IntToStr(AlphaRank(cits, <<g.author, g.year>>))]

\* the text a citation is rendered as when each pair has the number of its rank
RankRendered(text, span, cits, config) ==
  IF span[3]
  THEN IF config.type = "superscript"
       THEN Join(MemberRanks(Slice(text, span[1], span[2]), cits), <<",">>)
       ELSE FormatNum(config.format,
                      Join(MemberRanks(Slice(text, span[1], span[2]), cits), <<",", " ">>))
  ELSE LET g == Groups(text, span[1] + 1, CiteCore(text, span[1] + 1, FALSE))
       IN FormatNum(config.format, IntToStr(AlphaRank(cits, <<g.author, g.year>>)))

RECURSIVE RankedText(_, _, _, _, _, _)
RankedText(text, spans, k, pos, cits, config) ==
  IF k > Len(spans) THEN Slice(text, pos, Len(text))
  ELSE Slice(text, pos, spans[k][1])
       \o RankRendered(text, spans[k], cits, config)
       \o RankedText(text, spans, k + 1, spans[k][2], cits, config)

\* a run with alphabetical order on a document detected as author_year, for a
\* numeric target
AlphabeticalRun ==
  /\ CiteOnce
  /\ inp.config.sort = "alphabetical"
  /\ NumericTarget
  /\ out.input_style = "author_year"
  /\ out.citations # <<>>

AllRanked ==
  \A i \in 1..Len(doc0) :
     BodyText1(i) = IF get_heading_level(doc0[i]) # NoLevel THEN BodyText0(i)
                    ELSE RankedText(BodyText0(i), CitationSpans(BodyText0(i)), 1, 0,
                                    out.citations, inp.config)

\* C20: with sort = alphabetical, author_year input and a numeric target, the
\* distinct (author, year) pairs are ranked case-insensitively by author, then
\* by year, and every citation, single or member of a multi-citation group, is
\* rendered with the rank of its own pair instead of its appearance number.
C20_AlphabeticalRanksRendered == AlphabeticalRun => AllRanked

\* C20 for documents whose citations are all single and hold no tab
C20_SinglesRanked ==
  (AlphabeticalRun
     /\ (\A k \in 1..Len(out.citations) : ~out.citations[k].is_multi)
     /\ (\A i \in 1..Len(doc0) : \A k \in 1..Len(BodyText0(i)) : BodyText0(i)[k] # TAB))
  => AllRanked

\* a run of C20_SinglesRanked where the rank differs from the appearance number
C20_SinglesReordered ==
  /\ AlphabeticalRun
  /\ doc0 = <<ParaScenarioA, ParaJones>>
  /\ AllRanked
  /\ AlphaRank(out.citations, Pair(out.citations[1])) = 3

----------------------------------------------------------------------------
(* Conversions between the two numeric styles.                             *)

\* a conversion of numeric_bracket or superscript input that got to Step 6
NumericConverted ==
  /\ CiteOnce
  /\ out.path = "converted"
  /\ out.input_style \in {"numeric_bracket", "superscript"}

\* the place of the literal lit among the distinct literals that carry no id,
\* in extraction order
SequentialNumber(cits, lit) ==
  LET first == MinOf({j \in 1..Len(cits) : cits[j].match_text = lit})
  IN Cardinality({cits[j].match_text : j \in {n \in 1..first : cits[n].numbers = <<>>}})

\* the number a numeric occurrence is to be rendered with
KeptNumber(cits, c) ==
  IF c.numbers # <<>> THEN c.numbers[1] ELSE SequentialNumber(cits, c.match_text)

\* a text without the characters stored as elements of their own
Visible(t) == SelectSeq(t, LAMBDA ch : ch \notin ElementChars)

\* the text with the bracketed citations ms[k..] replaced by their rendering
RECURSIVE KeptBracketText(_, _, _, _, _, _)
KeptBracketText(text, ms, k, pos, cits, fmt) ==
  IF k > Len(ms) THEN Slice(text, pos, Len(text))
  ELSE LET lit == Slice(text, ms[k][1], ms[k][2])
           c == cits[CHOOSE j \in 1..Len(cits) : cits[j].match_text = lit]
       IN Slice(text, pos, ms[k][1])
          \o FormatNum(fmt, IntToStr(KeptNumber(cits, c)))
          \o KeptBracketText(text, ms, k + 1, ms[k][2], cits, fmt)

\* the text with every superscript citation run replaced by its rendering
KeptSuperscriptText(runs, cits, fmt) ==
  Concat([k \in 1..Len(runs) |->
            IF IsSuperscriptCitation(runs[k])
            THEN LET c == cits[CHOOSE j \in 1..Len(cits) : cits[j].match_text = RunText(runs[k])]
                 IN FormatNum(fmt, IntToStr(KeptNumber(cits, c)))
            ELSE RunText(runs[k])])

KeptText(i) ==
  IF get_heading_level(doc0[i]) # NoLevel THEN BodyText0(i)
  ELSE IF out.input_style = "numeric_bracket"
  THEN KeptBracketText(BodyText0(i), FindNumericBracket(BodyText0(i)), 1, 0,
                       out.citations, inp.config.format)
  ELSE KeptSuperscriptText(doc0[i].runs, out.citations, inp.config.format)

----------------------------------------------------------------------------
(* The detector's sample (citations.py:73-88, 50-64) on documents of more   *)
(* than SampleLimit body paragraphs: doc and inp.edited hold the same first *)
(* SampleLimit non-heading paragraphs; they differ in the headings among    *)
(* them and in everything that follows.                                     *)

MaxTail == 2

SamplePlain == MkPara("Normal", <<MkRun(<<"x">>, 1, FALSE)>>)

\* n copies of paragraph p
Copies(p, n) == [i \in 1..n |-> p]

\* SampleLimit body paragraphs, the marked ones last
SampleBodies(h) ==
  Copies(SamplePlain, SampleLimit - h.ay - h.br - h.sup)
  \o Copies(DetSuperscript, h.sup) \o Copies(DetAuthorYear, h.ay) \o Copies(DetBracketTwice, h.br)

\* the bodies with a heading before the first and before the last of them
WithHeadings(bodies) ==
  <<DetHeading>> \o SubSeq(bodies, 1, Len(bodies) - 1) \o <<DetHeading, bodies[Len(bodies)]>>

SampleTails == SeqsUpTo({DetAuthorYear, DetMixed, DetHeading}, MaxTail)

SampleInit ==
  /\ pc = "sample_call"
  /\ \E h \in [ay : 0..1, br : 0..1, sup : 0..1] :
       \E headed, headed_edit \in BOOLEAN :
         \E tail, tail_edit \in SampleTails :
            /\ doc = (IF headed THEN WithHeadings(SampleBodies(h)) ELSE SampleBodies(h)) \o tail
            /\ inp = [edited |-> (IF headed_edit THEN WithHeadings(SampleBodies(h))
                                  ELSE SampleBodies(h)) \o tail_edit]
  /\ doc0 = doc
  /\ out = [input_style |-> None, citations |-> <<>>, edited_style |-> None]

\* Steps 1 and 3 of apply_citations on doc, then Step 1 on the edited document
DetectSample ==
  /\ pc \in {"sample_call", "sample_first"}
  /\ \E s \in {detect_input_style(IF pc = "sample_call" THEN doc ELSE inp.edited)} :
        out' = IF pc = "sample_call"
               THEN [out EXCEPT !.input_style = s, !.citations = extract_citations(doc, s)]
               ELSE [out EXCEPT !.edited_style = s]
  /\ pc' = IF pc = "sample_call" THEN "sample_first" ELSE "sample_done"
  /\ UNCHANGED <<doc, doc0, inp>>

SampleNext == DetectSample

SampleSpec == SampleInit /\ [][SampleNext]_vars

\* the first SampleLimit non-heading paragraphs of d
Bodies(d) == SelectSeq(d, LAMBDA p : get_heading_level(p) = NoLevel)
FirstBodies(d) ==
  SubSeq(Bodies(d), 1, IF Len(Bodies(d)) < SampleLimit THEN Len(Bodies(d)) ELSE SampleLimit)

\* the index in d of its n-th non-heading paragraph
BodyIndex(d, n) ==
  CHOOSE i \in 1..Len(d) :
     /\ get_heading_level(d[i]) = NoLevel
     /\ Cardinality({j \in 1..i : get_heading_level(d[j]) = NoLevel}) = n

\* C22: detect_input_style depends only on the first 20 non-heading
\* paragraphs: two documents that agree on them, whatever their headings and
\* whatever follows the 20th, have the same detected style; extract_citations
\* has an occurrence for every non-heading paragraph of the document that
\* holds a marker of the style, also past the 20th.
C22_SampleBounded ==
  (pc = "sample_done" /\ FirstBodies(doc) = FirstBodies(inp.edited)) =>
     /\ out.input_style = out.edited_style
     /\ \A i \in 1..Len(doc) :
          \A k \in 1..2 :
            (/\ get_heading_level(doc[i]) = NoLevel
             /\ out.input_style = STYLE_NAMES[k]
             /\ Marked(doc[i], k))
            => \E j \in 1..Len(out.citations) : out.citations[j].para_idx = i

\* the paragraphs after the 20th body paragraph would turn the tallies from
\* (0, 1, 0) into (2, 2, 0), and one of them holds an extracted citation
C22_Witness ==
  /\ pc = "sample_done"
  /\ Len(Bodies(doc)) = SampleLimit + 2
  /\ SubSeq(doc, BodyIndex(doc, SampleLimit), Len(doc))
       = <<DetBracketTwice, DetMixed, DetAuthorYear>>
  /\ Len(doc) = SampleLimit + 4
  /\ Len(inp.edited) = SampleLimit
  /\ out.input_style = "numeric_bracket"
  /\ out.edited_style = "numeric_bracket"
  /\ \E j \in 1..Len(out.citations) :
        out.citations[j].para_idx = BodyIndex(doc, SampleLimit + 1)

----------------------------------------------------------------------------
(* The order of the splices within one paragraph.                          *)

\* a conversion that got to Step 6 and splices literals by replace_in_runs
TextConverted ==
  /\ CiteOnce
  /\ out.path = "converted"
  /\ out.input_style # "superscript"

\* the loop context and the state of Step 6 when paragraph i is entered (the
\* paragraphs before it changed neither paragraph i nor its entries of
\* replaced_multi)
ParaContext(i) ==
  [para_idx |-> i,
   para_cits |-> SelectSeq(out.citations, LAMBDA c : c.para_idx = i),
   target_fmt |-> inp.config.format,
   use_superscript |-> (inp.config.type = "superscript"),
   input_style |-> out.input_style]

ParaEntered ==
  CiteResult(doc0, "converted", out.input_style, <<>>, out.citations, out.cit_map)

\* the offsets, in the paragraph's text at the time, at which the successful
\* splices of sorted[k..] act
RECURSIVE SpliceTrace(_, _, _, _)
SpliceTrace(cx, sorted, k, g) ==
  IF k > Len(sorted) THEN <<>>
  ELSE LET after == CitStep(cx, sorted[k], g)
       IN (IF after.citations_reformatted > g.citations_reformatted
           THEN <<Find(ParaText(g.doc[cx.para_idx]), sorted[k].match_text)>>
           ELSE <<>>)
          \o SpliceTrace(cx, sorted, k + 1, after)

SplicesOf(i) ==
  SpliceTrace(ParaContext(i),
              SortedDesc(ParaContext(i).para_cits, BodyText0(i),
                         1..Len(ParaContext(i).para_cits)),
              1, ParaEntered)

Descending(s) == \A k \in 1..(Len(s) - 1) : s[k + 1] < s[k]

\* C23: within a paragraph every splice acts to the left of all the splices
\* made before it, also when the same literal occurs more than once in the
\* paragraph.
C23_RightToLeft ==
  TextConverted => \A i \in 1..Len(doc0) : Descending(SplicesOf(i))

\* C23 for the paragraphs whose citations have pairwise distinct literals
C23_DistinctLiteralsRightToLeft ==
  TextConverted =>
     \A i \in 1..Len(doc0) :
        (\A a, b \in 1..Len(ParaContext(i).para_cits) :
            (a # b /\ ~ParaContext(i).para_cits[a].is_multi)
            => ParaContext(i).para_cits[a].match_text # ParaContext(i).para_cits[b].match_text)
        => Descending(SplicesOf(i))

\* two splices were made in ParaScenarioA, the right one first
C23_TwoSplicesDescending ==
  /\ TextConverted
  /\ doc0 = <<ParaScenarioA>>
  /\ Len(SplicesOf(1)) = 2
  /\ SplicesOf(1)[1] = 49
  /\ SplicesOf(1)[2] = 11

\* the number of successful splices of multi-citation groups among sorted[k..]
RECURSIVE GroupSplices(_, _, _, _)
GroupSplices(cx, sorted, k, g) ==
  IF k > Len(sorted) THEN 0
  ELSE LET after == CitStep(cx, sorted[k], g)
       IN (IF sorted[k].is_multi /\ after.doc # g.doc THEN 1 ELSE 0)
          + GroupSplices(cx, sorted, k + 1, after)

GroupSplicesOf(i) ==
  GroupSplices(ParaContext(i),
               SortedDesc(ParaContext(i).para_cits, BodyText0(i),
                          1..Len(ParaContext(i).para_cits)),
               1, ParaEntered)

\* the multi-citation groups of body paragraph i, as spans of its text
GroupsIn(i) ==
  IF get_heading_level(doc0[i]) # NoLevel THEN <<>> ELSE FindMulti(BodyText0(i))

AuthorYearConverted == TextConverted /\ out.input_style = "author_year"

GroupsSplicedOnce(i) ==
  /\ GroupSplicesOf(i) = Len(GroupsIn(i))
  /\ \A k \in 1..Len(GroupsIn(i)) :
        ~Contains(BodyText1(i), Slice(BodyText0(i), GroupsIn(i)[k][1], GroupsIn(i)[k][2]))

\* C24: every multi-citation group occurring in the document is spliced
\* exactly once in a rewrite, one replacement per group whatever the number of
\* its members, and afterwards the group's literal is no longer in the
\* paragraph's text.
C24_EachGroupSplicedOnce ==
  AuthorYearConverted => \A i \in 1..Len(doc0) : GroupsSplicedOnce(i)

\* C24 for the paragraphs that hold each group literal once
C24_DistinctGroupsSplicedOnce ==
  AuthorYearConverted =>
     \A i \in 1..Len(doc0) :
        (\A a, b \in 1..Len(GroupsIn(i)) :
            a # b => Slice(BodyText0(i), GroupsIn(i)[a][1], GroupsIn(i)[a][2])
                       # Slice(BodyText0(i), GroupsIn(i)[b][1], GroupsIn(i)[b][2]))
        => GroupsSplicedOnce(i)

\* the group of ParaScenarioB, two members, was spliced once
C24_OneGroupOneSplice ==
  /\ AuthorYearConverted
  /\ doc0 = <<ParaScenarioB>>
  /\ Len(out.citations) = 2
  /\ GroupSplicesOf(1) = 1
  /\ GroupsSplicedOnce(1)

\* a warning of the run names the literal lit
WarnedAbout(lit) == \E w \in 1..Len(out.warnings) : out.warnings[w].lit = lit

Occurrences == 1..Len(out.citations)

\* every occurrence is counted as reformatted or named by a warning, and an
\* author-year literal that is still in its paragraph is named by a warning
AllSettled ==
  /\ out.citations_reformatted
       + Cardinality({j \in Occurrences : WarnedAbout(out.citations[j].match_text)})
     = out.citations_found
  /\ out.input_style = "author_year" =>
       \A j \in Occurrences :
          Contains(BodyText1(out.citations[j].para_idx), out.citations[j].match_text)
          => WarnedAbout(out.citations[j].match_text)

\* C25: in a conversion that passed the feasibility check every extracted
\* occurrence ends the run replaced in the document and counted in
\* citations_reformatted, or unchanged and named by a warning; the run always
\* returns its warnings and statistics.
C25_FailuresBecomeWarnings ==
  (CiteOnce /\ out.path = "converted") => AllSettled

\* C25 for documents in which every cited literal occurs once in its paragraph
C25_SettledWhenLiteralsOccurOnce ==
  (CiteOnce /\ out.path = "converted"
     /\ \A j \in Occurrences :
          Find(BodyText0(out.citations[j].para_idx), out.citations[j].match_text)
            = RFind(BodyText0(out.citations[j].para_idx), out.citations[j].match_text))
  => AllSettled

----------------------------------------------------------------------------
(* The section a heading vocabulary selects.                               *)

\* the end of a leading number prefix as "1. ", "1) " or "1.2 ": digits, dotted
\* groups of digits, then a "." or ")" or a space, then spaces; 0 when none
NumberedPrefixEnd(t) ==
  LET d == SkipWhile(t, 0, DigitChars)
      g == DottedGroups(t, d, -1)[2]
  IN IF d = 0 THEN 0
     ELSE IF At(t, g) \in {".", ")"} THEN SkipWhile(t, g + 1, SpaceChars)
     ELSE IF At(t, g) \in SpaceChars THEN SkipWhile(t, g, SpaceChars)
     ELSE 0

\* a heading text trimmed, its number prefix stripped, case-folded
NormalisedHeading(t) ==
  Lower(Slice(Strip(t), NumberedPrefixEnd(Strip(t)), Len(Strip(t))))

\* the heading paragraphs of d (1-based) whose normalised text is in the vocabulary
MatchingHeadings(d, vocabulary) ==
  {i \in 1..Len(d) :
     /\ get_heading_level(d[i]) # NoLevel
     /\ NormalisedHeading(ParaText(d[i])) \in {Lower(Strip(h)) : h \in vocabulary}}

\* the range of the first matching heading, 0-based: its index, and the index of
\* the next heading paragraph or the paragraph count
SectionOfFirstMatch(d, vocabulary) ==
  IF MatchingHeadings(d, vocabulary) = {} THEN <<>>
  ELSE LET i == MinOf(MatchingHeadings(d, vocabulary))
           later == {j \in (i + 1)..Len(d) : get_heading_level(d[j]) # NoLevel}
       IN <<i - 1, IF later = {} THEN Len(d) ELSE MinOf(later) - 1>>

\* C26: find_section_by_heading, and find_references_section built on it,
\* returns the range of the first heading paragraph whose text, trimmed, with a
\* leading number prefix such as "1. ", "1) " or "1.2 " stripped, and
\* case-folded, is in the vocabulary: start the heading's index, end the index
\* of the next heading or the paragraph count; none when no heading matches.
C26_FirstMatchingHeading ==
  RefRan => find_references_section(doc0) = SectionOfFirstMatch(doc0, REF_HEADINGS)

\* C26 for documents without a heading numbered "1.2 "
C26_FirstMatchingUndotted ==
  (RefRan /\ \A i \in 1..Len(doc0) : doc0[i] # RefHeadingDotted) =>
     find_references_section(doc0) = SectionOfFirstMatch(doc0, REF_HEADINGS)

\* the second of three headings is the first that matches; its section ends at
\* the third
C26_NumberedHeadingFound ==
  /\ RefRan
  /\ doc0 = <<OtherHeading, RefHeadingNumbered, RefHeading>>
  /\ find_references_section(doc0) = <<1, 2>>

----------------------------------------------------------------------------
(* FormatSpec: format_reference (references.py:166-201) on templates made   *)
(* of at most MaxPieces placeholders and punctuation marks, and on the two  *)
(* journal templates, with every subset of the fields missing.              *)

MaxPieces == 4

FieldValues ==
  [authors |-> <<"A">>, year |-> <<"2">>, title |-> <<"T">>, journal |-> <<"J">>,
   volume |-> <<"5">>, issue |-> <<"3">>, pages |-> <<"9">>, doi |-> <<"d">>]

\* the field map that holds the fields of the set present
FieldMap(present) == [k \in present |-> FieldValues[k]]

TemplatePieces ==
  {Braced("authors"), Braced("year"), Braced("title"),
   <<",">>, <<".">>, <<" ">>, <<"(">>, <<")">>}

PiecedTemplates == {Concat(ps) : ps \in SeqsUpTo(TemplatePieces, MaxPieces)}

FormatInit ==
  /\ pc = "format_call"
  /\ \/ inp \in [fields : {FieldMap(present) : present \in SUBSET {"authors", "year", "title"}},
                 template : PiecedTemplates,
                 number : {1}]
     \/ inp \in [fields : {FieldMap(present) : present \in SUBSET (DOMAIN FieldValues)},
                 template : {TemplateApa, TemplateNumbered},
                 number : {1}]
  /\ doc = <<>>
  /\ doc0 = <<>>
  /\ out = [result |-> None]

\* new_text = format_reference(fields, template, number)
FormatReference ==
  /\ pc = "format_call"
  /\ out' = [result |-> format_reference(inp.fields, inp.template, inp.number)]
  /\ pc' = "format_done"
  /\ UNCHANGED <<doc, doc0, inp>>

FormatNext == FormatReference

FormatSpec == FormatInit /\ [][FormatNext]_vars

\* marks a and b with nothing but whitespace between them
Doubled(t, a, b) ==
  \E p, q \in 1..Len(t) :
     /\ p < q
     /\ t[p] = a
     /\ t[q] = b
     /\ \A k \in (p + 1)..(q - 1) : t[k] \in SpaceChars

NoPlaceholder(t) == \A k \in 1..Len(Placeholders) : ~Contains(t, Braced(Placeholders[k]))

Trimmed(t) ==
  /\ ~\E p \in 1..(Len(t) - 1) : t[p] \in SpaceChars /\ t[p + 1] \in SpaceChars
  /\ t # <<>> => (t[1] \notin SpaceChars /\ t[Len(t)] \notin SpaceChars)

\* C27: for every template over the placeholders and every field map,
\* format_reference's result holds no placeholder, no "()", no doubled comma
\* or period (also across whitespace), no comma right before a period, no run
\* of two or more whitespace characters, neither starts nor ends with
\* whitespace and does not end with a comma.
C27_ResultClean ==
  pc = "format_done" =>
     /\ NoPlaceholder(out.result)
     /\ ~Contains(out.result, <<"(", ")">>)
     /\ ~Doubled(out.result, ",", ",")
     /\ ~Doubled(out.result, ".", ".")
     /\ ~Contains(out.result, <<",", ".">>)
     /\ Trimmed(out.result)
     /\ out.result # <<>> => out.result[Len(out.result)] # ","

\* C27, the part that every result has: placeholders substituted, whitespace
\* runs collapsed, ends trimmed
C27_SubstitutedAndTrimmed ==
  pc = "format_done" => NoPlaceholder(out.result) /\ Trimmed(out.result)

\* C27 on the journal template with every field present
C27_FullFieldsClean ==
  (pc = "format_done" /\ inp.template = TemplateApa
     /\ DOMAIN inp.fields = DOMAIN FieldValues) => C27_ResultClean

----------------------------------------------------------------------------
(* Frame conditions and statistics of apply_citations.                     *)

\* the extractor found an occurrence in paragraph i
HasOccurrence(i) == \E j \in 1..Len(out.citations) : out.citations[j].para_idx = i

\* C28: apply_citations changes neither a heading paragraph nor a paragraph in
\* which the extractor found no occurrence: their runs (count, text,
\* formatting) are the same before and after the call on every path.
C28_CitationFrame ==
  CiteRan =>
     /\ Len(doc) = Len(doc0)
     /\ \A i \in 1..Len(doc0) :
          (get_heading_level(doc0[i]) # NoLevel \/ ~HasOccurrence(i)) => doc[i] = doc0[i]

\* a heading that holds a citation literal is kept while the body paragraph
\* after it is rewritten
C28_Witness ==
  /\ CiteOnce
  /\ out.path = "converted"
  /\ doc0 = <<ParaHeading, ParaJones>>
  /\ doc[1] = ParaHeading
  /\ doc[2] # ParaJones
  /\ ~HasOccurrence(1)

----------------------------------------------------------------------------
(* Frame condition of apply_references.                                    *)

\* C29: apply_references changes only the non-blank paragraphs strictly
\* between the matched reference heading and the end of its section; the
\* heading, the paragraphs before it and from the section end on, and the
\* blank paragraphs of the section keep text, indentation and font size; a
\* changed paragraph keeps its number of runs unless it had none.
C29_ReferenceFrame ==
  RefRan =>
     /\ Len(doc) = Len(doc0)
     /\ \A i \in 1..Len(doc0) :
          IF i \in RefEntries
          THEN Len(doc0[i].runs) > 0 => Len(doc[i].runs) = Len(doc0[i].runs)
          ELSE doc[i] = doc0[i]

\* the heading and the blank line of the section are kept, the entry after
\* them is rewritten
C29_Witness ==
  /\ RefRan
  /\ doc0 = <<RefHeading, LineBlank, LineFull>>
  /\ RefEntries = {3}
  /\ doc[1] = RefHeading
  /\ doc[2] = LineBlank
  /\ ParaText(doc[3]) # ParaText(LineFull)
  /\ doc[3].left_indent # Unset

\* C30: in every result of apply_citations 0 <= citations_reformatted <=
\* citations_found, citations_found is the number of extracted occurrence
\* records (the members of a multi-citation counted one by one),
\* citations_reformatted is 0 on the early-exit, no-citation and infeasible
\* paths, and it is greater than 0 only if a run of the document was changed.
C30_StatisticsBounded ==
  CiteRan =>
     /\ 0 <= out.citations_reformatted
     /\ out.citations_reformatted <= out.citations_found
     /\ out.citations_found = Len(extract_citations(doc0, detect_input_style(doc0)))
     /\ out.path \in {"already", "none", "infeasible"} => out.citations_reformatted = 0
     /\ out.citations_reformatted > 0 =>
          \E i \in 1..Len(doc0) : doc[i].runs # doc0[i].runs

\* the two members of one group and a single citation: three records, all
\* counted as reformatted
C30_Witness ==
  /\ CiteOnce
  /\ doc0 = <<ParaScenarioB, ParaJones>>
  /\ out.path = "converted"
  /\ out.citations_found = 3
  /\ out.citations_reformatted = 3
  /\ doc[1].runs # doc0[1].runs

====
